---- MODULE Spec2Model ----
(***************************************************************************)
(* Model of the provider/model refresh orchestrator (useEndpointProviders) *)
(* and of the local agent-settings page (AgentSettingsPage) of the         *)
(* API-Management-Center web application.                                  *)
(*                                                                         *)
(* Strings are sequences of one-character strings, so that trimming, case  *)
(* folding, concatenation and pattern matching are computed, not assumed.  *)
(***************************************************************************)
EXTENDS Integers, Sequences, FiniteSets, TLC

\* ------------------------------------------------------------------------
\* Text helpers (String.prototype.trim / toLowerCase on character sequences)
\* ------------------------------------------------------------------------

LowerChars == <<"a","b","c","d","e","f","g","h","i","j","k","l","m",
                "n","o","p","q","r","s","t","u","v","w","x","y","z">>

UpperChars == <<"A","B","C","D","E","F","G","H","I","J","K","L","M",
                "N","O","P","Q","R","S","T","U","V","W","X","Y","Z">>

ToLowerChar(c) ==
  IF \E i \in 1..Len(UpperChars) : UpperChars[i] = c
    THEN LowerChars[CHOOSE i \in 1..Len(UpperChars) : UpperChars[i] = c]
    ELSE c

toLowerCase(s) == [i \in 1..Len(s) |-> ToLowerChar(s[i])]

\* The white space that String.prototype.trim removes (the explored texts hold
\* spaces and line feeds).
WhiteSpace == {" ", "\t", "\n", "\r"}

IsSpace(c) == c \in WhiteSpace

RECURSIVE TrimLeft(_)
TrimLeft(s) ==
  IF s # <<>> /\ IsSpace(Head(s)) THEN TrimLeft(Tail(s)) ELSE s

RECURSIVE TrimRight(_)
TrimRight(s) ==
  IF s # <<>> /\ IsSpace(s[Len(s)]) THEN TrimRight(SubSeq(s, 1, Len(s) - 1)) ELSE s

\* normalizeText on a string value; the empty sequence also stands for an
\* absent (undefined / null) value, which String(value ?? '') maps to ''.
normalizeText(s) == TrimRight(TrimLeft(s))

normalizeProviderKey(s) == toLowerCase(normalizeText(s))

RECURSIVE Concat(_)
Concat(ss) == IF ss = <<>> THEN <<>> ELSE Head(ss) \o Concat(Tail(ss))

Range(f) == { f[i] : i \in DOMAIN f }

\* ------------------------------------------------------------------------
\* Model lists.  A ModelInfo is [name, alias]; alias <<>> is "no alias".
\* No code path of the hook produces a description, so it is left out.
\* ------------------------------------------------------------------------

RECURSIVE dedupeFrom(_, _, _)
dedupeFrom(models, seen, result) ==
  IF models = <<>> THEN result
  ELSE LET model == Head(models)
           name  == normalizeText(model.name)
           key   == toLowerCase(name)
           alias == normalizeText(model.alias)
           next  == [name  |-> name,
                     alias |-> IF alias # <<>> /\ toLowerCase(alias) # key
                                 THEN alias ELSE <<>>]
       IN IF name = <<>> \/ key \in seen
            THEN dedupeFrom(Tail(models), seen, result)
            ELSE dedupeFrom(Tail(models), seen \cup {key}, Append(result, next))

dedupeModels(models) == dedupeFrom(models, {}, <<>>)

RECURSIVE normalizePatternsFrom(_, _, _)
normalizePatternsFrom(patterns, seen, result) ==
  IF patterns = <<>> THEN result
  ELSE LET trimmed == normalizeText(Head(patterns))
           key     == toLowerCase(trimmed)
       IN IF trimmed = <<>> \/ key \in seen
            THEN normalizePatternsFrom(Tail(patterns), seen, result)
            ELSE normalizePatternsFrom(Tail(patterns), seen \cup {key},
                                       Append(result, trimmed))

normalizeExcludedPatterns(patterns) == normalizePatternsFrom(patterns, {}, <<>>)

\* Glob matching restricted to "*": the regular expression built by
\* matchExcludePattern is ^seg1.*seg2...$ with the "i" flag.
RECURSIVE GlobMatch(_, _)
GlobMatch(model, pattern) ==
  IF pattern = <<>> THEN model = <<>>
  ELSE IF Head(pattern) = "*"
    THEN \E k \in 0..Len(model) :
           GlobMatch(SubSeq(model, k + 1, Len(model)), Tail(pattern))
    ELSE /\ model # <<>>
         /\ ToLowerChar(Head(model)) = ToLowerChar(Head(pattern))
         /\ GlobMatch(Tail(model), Tail(pattern))

matchExcludePattern(model, pattern) ==
  IF ~(\E i \in 1..Len(pattern) : pattern[i] = "*")
    THEN toLowerCase(model) = toLowerCase(pattern)
    ELSE GlobMatch(model, pattern)

filterExcludedModels(models, patterns) ==
  LET normalizedPatterns == normalizeExcludedPatterns(patterns)
      Excluded(model) ==
        LET candidates == { c \in {normalizeText(model.name), normalizeText(model.alias)} :
                              c # <<>> }
        IN \E c \in candidates : \E i \in 1..Len(normalizedPatterns) :
             matchExcludePattern(c, normalizedPatterns[i])
  IN IF normalizedPatterns = <<>> THEN models
     ELSE SelectSeq(models, LAMBDA model : ~Excluded(model))

\* Input items are [name, alias]; a non-trivial alias becomes the primary name.
RECURSIVE convertConfiguredFrom(_)
convertConfiguredFrom(models) ==
  IF models = <<>> THEN <<>>
  ELSE LET model   == Head(models)
           rawName == normalizeText(model.name)
           alias   == normalizeText(model.alias)
           rest    == convertConfiguredFrom(Tail(models))
       IN IF rawName = <<>> THEN rest
          ELSE IF alias # <<>> /\ toLowerCase(alias) # toLowerCase(rawName)
            THEN <<[name |-> alias, alias |-> rawName]>> \o rest
            ELSE <<[name |-> rawName, alias |-> <<>>]>> \o rest

convertConfiguredModels(models) == dedupeModels(convertConfiguredFrom(models))

\* Input items are [id, display_name]; the raw id stays the primary name.
RECURSIVE normalizeAuthApiFrom(_)
normalizeAuthApiFrom(models) ==
  IF models = <<>> THEN <<>>
  ELSE LET model == Head(models)
           id    == normalizeText(model.id)
           alias == normalizeText(model.display_name)
           rest  == normalizeAuthApiFrom(Tail(models))
       IN IF id = <<>> THEN rest
          ELSE IF alias # <<>> /\ toLowerCase(alias) # toLowerCase(id)
            THEN <<[name |-> id, alias |-> alias]>> \o rest
            ELSE <<[name |-> id, alias |-> <<>>]>> \o rest

normalizeAuthApiModelsAliasFirst(models) ==
  convertConfiguredModels([i \in 1..Len(models) |->
                             [name |-> models[i].id, alias |-> models[i].display_name]])

normalizeAuthApiModels(models) == dedupeModels(normalizeAuthApiFrom(models))

\* A JavaScript object used as a map (Record<string, T>) is kept as a
\* sequence of [key, value] in insertion order, with unique keys.
MapHas(map, key) == \E i \in 1..Len(map) : map[i].key = key

MapGet(map, key) ==
  IF MapHas(map, key)
    THEN map[CHOOSE i \in 1..Len(map) : map[i].key = key].value
    ELSE <<>>

MapSet(map, key, value) ==
  IF MapHas(map, key)
    THEN [i \in 1..Len(map) |-> IF map[i].key = key
                                  THEN [key |-> key, value |-> value] ELSE map[i]]
    ELSE Append(map, [key |-> key, value |-> value])

applyAliasLookupAsMapped(models, lookup) ==
  IF Len(lookup) = 0 THEN dedupeModels(models)
  ELSE LET Map(model) ==
             LET rawName     == normalizeText(model.name)
                 mappedAlias == normalizeText(MapGet(lookup, toLowerCase(rawName)))
             IN IF rawName = <<>> THEN model
                ELSE IF mappedAlias = <<>> THEN model
                ELSE IF toLowerCase(mappedAlias) = toLowerCase(rawName) THEN model
                ELSE [name |-> mappedAlias, alias |-> rawName]
       IN [i \in 1..Len(models) |-> Map(models[i])]

applyAliasLookup(models, lookup) ==
  IF Len(lookup) = 0 THEN dedupeModels(models)
  ELSE LET Map(model) ==
             LET rawName     == normalizeText(model.name)
                 mappedAlias == normalizeText(MapGet(lookup, toLowerCase(rawName)))
             IN IF rawName = <<>> THEN model
                ELSE IF mappedAlias = <<>> THEN model
                ELSE IF toLowerCase(mappedAlias) = toLowerCase(rawName) THEN model
                ELSE [name |-> mappedAlias, alias |-> rawName]
       IN dedupeModels([i \in 1..Len(models) |-> Map(models[i])])

\* Alias entries are [name, alias]; a later entry of the same name wins.
RECURSIVE buildAliasLookupFrom(_, _)
buildAliasLookupFrom(entries, lookup) ==
  IF entries = <<>> THEN lookup
  ELSE LET name  == toLowerCase(normalizeText(Head(entries).name))
           alias == normalizeText(Head(entries).alias)
       IN IF name = <<>> \/ alias = <<>>
            THEN buildAliasLookupFrom(Tail(entries), lookup)
            ELSE buildAliasLookupFrom(Tail(entries), MapSet(lookup, name, alias))

buildAliasLookup(entries) == buildAliasLookupFrom(entries, <<>>)

\* ------------------------------------------------------------------------
\* Provider entry builders
\* ------------------------------------------------------------------------

\* Loosely typed JSON flag values: [k, b, n, s] with k the JavaScript type.
FlagUndef   == [k |-> "undef", b |-> FALSE, n |-> 0, s |-> <<>>]
FlagBool(b) == [k |-> "bool",  b |-> b,     n |-> 0, s |-> <<>>]
FlagNum(n)  == [k |-> "num",   b |-> FALSE, n |-> n, s |-> <<>>]
FlagStr(s)  == [k |-> "str",   b |-> FALSE, n |-> 0, s |-> s]

TruthyWords == { <<"t","r","u","e">>, <<"1">>, <<"y","e","s">>, <<"y">>, <<"o","n">> }

isTruthyFlagOnlyTrue(value) ==
  value.k = "bool" /\ value.b

isTruthyFlag(value) ==
  CASE value.k = "bool" -> value.b
    [] value.k = "num"  -> value.n # 0
    [] value.k = "str"  -> toLowerCase(normalizeText(value.s)) \in TruthyWords
    [] OTHER            -> FALSE

Digits == <<"0","1","2","3","4","5","6","7","8","9">>

RECURSIVE NumberToString(_)
NumberToString(n) ==
  IF n < 10 THEN <<Digits[n + 1]>>
  ELSE NumberToString(n \div 10) \o <<Digits[(n % 10) + 1]>>

AuthPrefix       == <<"a","u","t","h",":">>
ConfiguredPrefix == <<"c","o","n","f","i","g","u","r","e","d",":">>
OpenaiKind       == <<"o","p","e","n","a","i">>
CodexKind        == <<"c","o","d","e","x">>
ClaudeKind       == <<"c","l","a","u","d","e">>
GeminiKind       == <<"g","e","m","i","n","i">>
VertexKind       == <<"v","e","r","t","e","x">>

\* An EndpointProviderEntry.  baseUrl, keyOptions, realBaseUrl and
\* realKeyOptions only feed the code-snippet and connectivity-test views and
\* are not carried.  Fields that a source kind does not set are empty.
AuthEntryBareId(providerKey, label, order, files, aliasLookup, excludedPatterns) ==
  [id               |-> providerKey,
   sourceKind       |-> "auth-proxy",
   providerKey      |-> providerKey,
   name             |-> label,
   order            |-> order,
   configuredModels |-> <<>>,
   authFileNames    |-> files,
   aliasLookup      |-> aliasLookup,
   excludedPatterns |-> excludedPatterns]

AuthEntry(providerKey, label, order, files, aliasLookup, excludedPatterns) ==
  [id               |-> AuthPrefix \o providerKey,
   sourceKind       |-> "auth-proxy",
   providerKey      |-> providerKey,
   name             |-> label,
   order            |-> order,
   configuredModels |-> <<>>,
   authFileNames    |-> files,
   aliasLookup      |-> aliasLookup,
   excludedPatterns |-> excludedPatterns]

ConfiguredEntry(kind, index, providerKey, name, order, models) ==
  [id               |-> ConfiguredPrefix \o kind \o <<":">> \o NumberToString(index),
   sourceKind       |-> "configured-api",
   providerKey      |-> providerKey,
   name             |-> name,
   order            |-> order,
   configuredModels |-> models,
   authFileNames    |-> <<>>,
   aliasLookup      |-> <<>>,
   excludedPatterns |-> <<>>]

\* groups is the insertion-ordered Map of buildAuthProviderEntries, kept as a
\* sequence of [key, label, order, files]; the final sort by order keeps it.
RECURSIVE groupAuthFiles(_, _)
groupAuthFiles(authFiles, groups) ==
  IF authFiles = <<>> THEN groups
  ELSE LET file        == Head(authFiles)
           rawProvider == normalizeText(IF file.provider # <<>> THEN file.provider
                                                                ELSE file.type)
           providerKey == normalizeProviderKey(rawProvider)
           fileName    == normalizeText(file.name)
           rest        == Tail(authFiles)
       IN IF isTruthyFlag(file.disabled) \/ isTruthyFlag(file.unavailable)
            THEN groupAuthFiles(rest, groups)
          ELSE IF providerKey = <<>> THEN groupAuthFiles(rest, groups)
          ELSE IF fileName = <<>> THEN groupAuthFiles(rest, groups)
          ELSE IF \E i \in 1..Len(groups) : groups[i].key = providerKey
            THEN LET i == CHOOSE j \in 1..Len(groups) : groups[j].key = providerKey
                 IN groupAuthFiles(rest,
                      [groups EXCEPT ![i].files =
                         IF fileName \in Range(@) THEN @ ELSE Append(@, fileName)])
            ELSE groupAuthFiles(rest,
                   Append(groups, [key   |-> providerKey,
                                   label |-> rawProvider,
                                   order |-> Len(groups),
                                   files |-> <<fileName>>]))

buildAuthProviderEntriesLastFirst(authFiles, aliasMap, excludedMap) ==
  LET groups == groupAuthFiles(authFiles, <<>>)
  IN [i \in 1..Len(groups) |->
        LET group == groups[Len(groups) + 1 - i]
        IN AuthEntry(group.key, group.label, group.order, group.files,
                     buildAliasLookup(MapGet(aliasMap, group.key)),
                     normalizeExcludedPatterns(MapGet(excludedMap, group.key)))]

buildAuthProviderEntries(authFiles, aliasMap, excludedMap) ==
  LET groups == groupAuthFiles(authFiles, <<>>)
  IN [i \in 1..Len(groups) |->
        AuthEntry(groups[i].key, groups[i].label, groups[i].order, groups[i].files,
                  buildAliasLookup(MapGet(aliasMap, groups[i].key)),
                  normalizeExcludedPatterns(MapGet(excludedMap, groups[i].key)))]

resolveSimpleProviderName(fallbackName, index, item) ==
  LET prefix  == normalizeText(item.prefix)
      baseUrl == normalizeText(item.baseUrl)
  IN IF prefix # <<>> THEN prefix
     ELSE IF baseUrl # <<>> THEN baseUrl
     ELSE fallbackName \o <<"#">> \o NumberToString(index + 1)

\* index is the zero-based forEach index; TLA+ sequences are one-based.
buildConfiguredEntries(config) ==
  LET nOpenai == Len(config.openaiCompatibility)
      nCodex  == Len(config.codexApiKeys)
      nClaude == Len(config.claudeApiKeys)
      nGemini == Len(config.geminiApiKeys)
      nVertex == Len(config.vertexApiKeys)
      Openai(i) ==
        LET provider == config.openaiCompatibility[i + 1]
            name == IF normalizeText(provider.name) # <<>>
                      THEN normalizeText(provider.name)
                      ELSE <<"o","p","e","n","a","i","-","c","o","m","p","a","t","#">>
                             \o NumberToString(i + 1)
        IN ConfiguredEntry(OpenaiKind, i,
             normalizeProviderKey(IF provider.name # <<>> THEN provider.name ELSE name),
             name, i, convertConfiguredModels(provider.models))
      Simple(kind, items, i, base) ==
        ConfiguredEntry(kind, i, kind, resolveSimpleProviderName(kind, i, items[i + 1]),
                        base + i, convertConfiguredModels(items[i + 1].models))
  IN   [i \in 1..nOpenai |-> Openai(i - 1)]
    \o [i \in 1..nCodex  |-> Simple(CodexKind,  config.codexApiKeys,  i - 1, nOpenai)]
    \o [i \in 1..nClaude |-> Simple(ClaudeKind, config.claudeApiKeys, i - 1, nOpenai + nCodex)]
    \o [i \in 1..nGemini |-> Simple(GeminiKind, config.geminiApiKeys, i - 1,
                                    nOpenai + nCodex + nClaude)]
    \o [i \in 1..nVertex |-> Simple(VertexKind, config.vertexApiKeys, i - 1,
                                    nOpenai + nCodex + nClaude + nGemini)]

\* ------------------------------------------------------------------------
\* Backend data served to the page (environment)
\* ------------------------------------------------------------------------

AuthFile(name, provider, type, disabled, unavailable) ==
  [name |-> name, provider |-> provider, type |-> type,
   disabled |-> disabled, unavailable |-> unavailable]

KeyConfig(prefix, baseUrl, models) ==
  [prefix |-> prefix, baseUrl |-> baseUrl, models |-> models]

EmptyConfig ==
  [openaiCompatibility |-> <<>>, codexApiKeys |-> <<>>, claudeApiKeys |-> <<>>,
   geminiApiKeys |-> <<>>, vertexApiKeys |-> <<>>]

CodexAliases ==
  <<[key |-> <<"c","o","d","e","x">>, value |-> <<[name |-> <<"a">>, alias |-> <<"m">>]>>]>>

\* One credential file of provider codex and one disabled file of provider
\* "q"; no configured key.
BackendA ==
  [config      |-> EmptyConfig,
   files       |-> <<AuthFile(<<"f","1">>, <<"c","o","d","e","x">>, <<>>, FlagUndef, FlagUndef),
                     AuthFile(<<"f","3">>, <<"q">>, <<>>, FlagStr(<<"y","e","s">>), FlagUndef)>>,
   aliasMap    |-> CodexAliases,
   excludedMap |-> <<[key |-> <<"q">>, value |-> <<<<"b","*">>>>]>>]

\* A later backend state: the credential file is unavailable, and there is one
\* configured codex key with one model.
BackendB ==
  [config      |-> [EmptyConfig EXCEPT !.codexApiKeys =
                      <<KeyConfig(<<>>, <<>>,
                                  <<[name |-> <<"a">>, alias |-> <<"z">>]>>)>>],
   files       |-> <<AuthFile(<<"f","1">>, <<"c","o","d","e","x">>, <<>>, FlagUndef,
                              FlagBool(TRUE))>>,
   aliasMap    |-> CodexAliases,
   excludedMap |-> <<>>]

\* Two credential files of provider codex (spelt in two cases), with an alias
\* and an exclusion pattern for that provider.
BackendF ==
  [config      |-> EmptyConfig,
   files       |-> <<AuthFile(<<"f","1">>, <<"c","o","d","e","x">>, <<>>, FlagUndef, FlagUndef),
                     AuthFile(<<"f","2">>, <<"C","o","d","e","x">>, <<>>,
                              FlagStr(<<"n","o">>), FlagUndef)>>,
   aliasMap    |-> CodexAliases,
   excludedMap |-> <<[key |-> <<"c","o","d","e","x">>, value |-> <<<<"x","*">>>>]>>]

\* Five providers with one credential file each, and one configured key.
BackendG ==
  [config      |-> [EmptyConfig EXCEPT !.claudeApiKeys =
                      <<KeyConfig(<<>>, <<>>, <<[name |-> <<"c">>, alias |-> <<>>]>>)>>],
   files       |-> <<AuthFile(<<"g","1">>, <<"p","1">>, <<>>, FlagUndef, FlagUndef),
                     AuthFile(<<"g","2">>, <<"p","2">>, <<>>, FlagUndef, FlagUndef),
                     AuthFile(<<"g","3">>, <<"p","3">>, <<>>, FlagUndef, FlagUndef),
                     AuthFile(<<"g","4">>, <<"p","4">>, <<>>, FlagUndef, FlagUndef),
                     AuthFile(<<"g","5">>, <<"p","5">>, <<>>, FlagUndef, FlagUndef)>>,
   aliasMap    |-> <<>>,
   excludedMap |-> <<>>]

\* Two credential files of provider codex whose listed models meet under the
\* alias of one of them, an exclusion pattern, and a configured codex key
\* with two models of one name.
BackendM ==
  [config      |-> [EmptyConfig EXCEPT !.codexApiKeys =
                      <<KeyConfig(<<>>, <<>>,
                                  <<[name |-> <<"a">>, alias |-> <<"z">>],
                                    [name |-> <<"Z"," ">>, alias |-> <<>>],
                                    [name |-> <<" ">>, alias |-> <<"y">>]>>)>>],
   files       |-> <<AuthFile(<<"f","1">>, <<"c","o","d","e","x">>, <<>>, FlagUndef, FlagUndef),
                     AuthFile(<<"f","2">>, <<"c","o","d","e","x">>, <<>>, FlagUndef, FlagUndef)>>,
   aliasMap    |-> <<[key |-> <<"c","o","d","e","x">>,
                      value |-> <<[name |-> <<"A">>, alias |-> <<" ","B">>]>>]>>,
   excludedMap |-> <<[key |-> <<"c","o","d","e","x">>, value |-> <<<<"x","*">>>>]>>]

\* One credential file of provider q, with an alias that only changes the
\* case of a model's name and a pattern that excludes a listed model.
BackendN ==
  [config      |-> EmptyConfig,
   files       |-> <<AuthFile(<<"f","1">>, <<"q">>, <<>>, FlagUndef, FlagUndef)>>,
   aliasMap    |-> <<[key |-> <<"q">>,
                      value |-> <<[name |-> <<"a">>, alias |-> <<"A">>],
                                  [name |-> <<"b">>, alias |-> <<"c">>]>>]>>,
   excludedMap |-> <<[key |-> <<"q">>, value |-> <<<<"A">>>>]>>]

\* No credential file; a configured codex key listing models m and k and a configured
\* claude key listing models n and m.
BackendS ==
  [config      |-> [EmptyConfig EXCEPT
                      !.codexApiKeys =
                        <<KeyConfig(<<>>, <<>>, <<[name |-> <<"m">>, alias |-> <<>>],
                                                  [name |-> <<"k">>, alias |-> <<>>]>>)>>,
                      !.claudeApiKeys =
                        <<KeyConfig(<<>>, <<>>, <<[name |-> <<"n">>, alias |-> <<>>],
                                                  [name |-> <<"m">>, alias |-> <<>>]>>)>>],
   files       |-> <<>>,
   aliasMap    |-> <<>>,
   excludedMap |-> <<>>]

\* A later state of BackendG: one credential file is left, and no configured
\* key.
BackendH ==
  [config      |-> EmptyConfig,
   files       |-> <<AuthFile(<<"g","1">>, <<"p","1">>, <<>>, FlagUndef, FlagUndef)>>,
   aliasMap    |-> <<>>,
   excludedMap |-> <<>>]

\* A later state of BackendG: the fifth provider has got a model alias.
BackendI ==
  [BackendG EXCEPT !.aliasMap =
     <<[key |-> <<"p","5">>, value |-> <<[name |-> <<"a">>, alias |-> <<"m">>]>>]>>]

Backends == [A |-> BackendA, B |-> BackendB, F |-> BackendF, G |-> BackendG,
             H |-> BackendH, I |-> BackendI, M |-> BackendM, N |-> BackendN, S |-> BackendS]

\* Raw model listings ({id, display_name} items) a listing call may return.
RawModel(id, displayName) == [id |-> id, display_name |-> displayName]

RawEmpty == <<>>
RawA     == <<RawModel(<<"a">>, <<>>), RawModel(<<"A">>, <<"x">>)>>
RawB     == <<RawModel(<<" ","b">>, <<"B","2">>), RawModel(<<>>, <<"c">>)>>

\* Values a rejected call may throw: an Error with a message, a string, or
\* another (truthy, non-string) value whose String() form is text.
Thrown(kind, text) == [k |-> kind, text |-> text]

NoError == Thrown("none", <<>>)

DefinitionError   == Thrown("Error",  <<"d","e","f">>)
DefinitionString  == Thrown("string", <<"s","t","r">>)
DefinitionOther   == Thrown("other",  <<"5","0","0">>)
FileError         == Thrown("Error",  <<"f","i","l","e">>)

Fulfilled(value) == [k |-> "fulfilled", value |-> value, reason |-> NoError]
Rejected(reason) == [k |-> "rejected",  value |-> <<>>,  reason |-> reason]
Pending          == [k |-> "pending",   value |-> <<>>,  reason |-> NoError]

\* Responses explored when the interleaving of refreshes is the subject.
DefinitionResponses == { Fulfilled(RawA), Rejected(DefinitionError) }

FileResponses == { Fulfilled(RawB), Rejected(FileError) }

\* Responses explored when the batches of a load are the subject.
BatchDefinitionResponses == { Fulfilled(RawA), Rejected(DefinitionOther) }

BatchFileResponses == { Rejected(FileError) }

\* Responses explored when the reporting of failures is the subject.
ErrorDefinitionResponses ==
  { Fulfilled(RawA),
    Rejected(DefinitionError), Rejected(DefinitionString), Rejected(DefinitionOther) }

\* Responses explored when the resolution of one entry's models is the subject.
AllDefinitionResponses ==
  { Fulfilled(RawEmpty), Fulfilled(RawA),
    Rejected(DefinitionError), Rejected(DefinitionString), Rejected(DefinitionOther) }

AllFileResponses == { Fulfilled(RawA), Fulfilled(RawB), Rejected(FileError) }

\* ------------------------------------------------------------------------
\* Bounds of the exploration
\* ------------------------------------------------------------------------

MaxLoads    == 1    \* loadPageData invocations
MaxReloads  == 1    \* reloadProviderModels invocations

\* ------------------------------------------------------------------------
\* State of the useEndpointProviders hook
\* ------------------------------------------------------------------------

VARIABLES
  connected,           \* authState.connectionStatus = 'connected' and apiBase set
  backend,             \* which of Backends the backend currently serves
  providerEntries,     \* useState<EndpointProviderEntry[]>
  modelsByProvider,    \* useState<Record<string, ProviderModelsState>>
  pageLoading,         \* useState(false)
  providerFetchToken,  \* providerFetchTokenRef.current
  calls,               \* refreshSingleProviderModels invocations awaiting a response
  loads,               \* loadPageData invocations, in start order
  reloads,             \* number of reloadProviderModels invocations so far
  lastDone             \* the awaiting invocation that ended last

hookVars == <<connected, backend, providerEntries, modelsByProvider, pageLoading,
              providerFetchToken, calls, loads, reloads, lastDone>>

\* Calls of the pure helper functions, outside the hook's state
VARIABLES
  input,               \* the argument of the first call
  output               \* the values returned so far

callVars == <<input, output>>

NoCall == <<>>

\* No helper is being called.
CallsIdle == input = NoCall /\ output = <<>>

\* The texts of at most n characters over an alphabet
TextsUpTo(chars, n) == UNION { [1..k -> chars] : k \in 0..n }

EmptyMap == [x \in {} |-> x]

MapPut(map, key, value) ==
  [k \in DOMAIN map \cup {key} |-> IF k = key THEN value ELSE map[k]]

\* t('api_endpoints.models_load_failed')
ModelsLoadFailed == <<"l","o","a","d","_","f","a","i","l","e","d">>

concurrency == 4

DEFAULT_MODELS_STATE ==
  [status |-> "idle", models |-> <<>>, hasError |-> FALSE, error |-> <<>>]

\* prev[entry.id]?.models ?? []
PrevModels(prev, id) == IF id \in DOMAIN prev THEN prev[id].models ELSE <<>>

LoadingStateCleared(prev, id) ==
  [status |-> "loading", models |-> <<>>, hasError |-> FALSE, error |-> <<>>]

LoadingState(prev, id) ==
  [status |-> "loading", models |-> PrevModels(prev, id),
   hasError |-> FALSE, error |-> <<>>]

SuccessState(models) ==
  [status |-> "success", models |-> models, hasError |-> FALSE, error |-> <<>>]

ErrorStateCleared(prev, id, message) ==
  [status |-> "error", models |-> <<>>, hasError |-> TRUE, error |-> message]

ErrorState(prev, id, message) ==
  [status |-> "error", models |-> PrevModels(prev, id),
   hasError |-> TRUE, error |-> message]

\* error instanceof Error ? error.message : typeof error === 'string' ? error : t(...)
ErrorMessage(error) ==
  CASE error.k = "Error"  -> error.text
    [] error.k = "string" -> error.text
    [] OTHER              -> ModelsLoadFailed

\* providerFetchTokenRef.current[entry.id] ?? 0
TokenOf(tokens, id) == IF id \in DOMAIN tokens THEN tokens[id] ELSE 0

IsStaleNever(tokens, call) == FALSE

\* providerFetchTokenRef.current[entry.id] !== nextToken
IsStale(tokens, call) == TokenOf(tokens, call.entry.id) # call.token

NoOutcome    == [k |-> "none",  models |-> <<>>, error |-> NoError]
Returned(ms) == [k |-> "ok",    models |-> ms,   error |-> NoError]
Threw(error) == [k |-> "throw", models |-> <<>>, error |-> error]

FinishModelsFilterFirst(entry, models) ==
  applyAliasLookup(filterExcludedModels(models, entry.excludedPatterns),
                   entry.aliasLookup)

\* The tail of fetchAuthProxyModels: alias lookup, then exclusion filtering.
FinishModels(entry, models) ==
  filterExcludedModels(applyAliasLookup(models, entry.aliasLookup),
                       entry.excludedPatterns)

WriteOutcomeDropped(tokens, prev, call, outcome) == prev

WriteOutcomeAlone(tokens, prev, call, outcome) ==
  IF IsStale(tokens, call) THEN prev
  ELSE IF outcome.k = "ok"
    THEN MapPut(EmptyMap, call.entry.id, SuccessState(outcome.models))
    ELSE MapPut(EmptyMap, call.entry.id,
                ErrorState(prev, call.entry.id, ErrorMessage(outcome.error)))

\* What refreshSingleProviderModels does with the value or exception it got:
\* nothing when a newer call for the id exists, otherwise one whole-record
\* replacement.
WriteOutcome(tokens, prev, call, outcome) ==
  IF IsStale(tokens, call) THEN prev
  ELSE IF outcome.k = "ok"
    THEN MapPut(prev, call.entry.id, SuccessState(outcome.models))
    ELSE MapPut(prev, call.entry.id,
                ErrorState(prev, call.entry.id, ErrorMessage(outcome.error)))

CallResultRethrows(outcome) == IF outcome.k = "throw" THEN "rejected" ELSE "resolved"

\* How the promise of refreshSingleProviderModels settles: the catch block
\* handles every exception, so it always resolves.
CallResult(outcome) == "resolved"

\* The record kept of an invocation that has ended.
Ended(tokens, call, outcome) ==
  [k |-> "ended", id |-> call.entry.id, token |-> call.token,
   stale |-> IsStale(tokens, call), definitionError |-> call.definitionError,
   files |-> call.files, outcome |-> outcome, result |-> CallResult(outcome)]

NoneEnded ==
  [k |-> "none", id |-> <<>>, token |-> 0, stale |-> FALSE,
   definitionError |-> NoError, files |-> <<>>, outcome |-> NoOutcome,
   result |-> "pending"]

\* refreshSingleProviderModels(entry) up to its first suspension point.  st is
\* [tokens, models, calls]; load and batch tell which Promise.all awaits the
\* call (load 0: none).  A configured-api entry is resolved without awaiting
\* anything; so is, in effect, an entry without provider key, for which
\* fetchAuthProxyModels returns at once.
StartCall(st, entry, load, batch) ==
  LET nextToken == TokenOf(st.tokens, entry.id) + 1
      tokens    == MapPut(st.tokens, entry.id, nextToken)
      loading   == MapPut(st.models, entry.id, LoadingState(st.models, entry.id))
      call      == [entry |-> entry, token |-> nextToken, load |-> load,
                    batch |-> batch, pc |-> "defs", definitionError |-> NoError,
                    files |-> [i \in 1..Len(entry.authFileNames) |-> Pending]]
  IN IF entry.sourceKind = "configured-api"
       THEN [tokens |-> tokens,
             models |-> WriteOutcome(tokens, loading, call,
                                     Returned(dedupeModels(entry.configuredModels))),
             calls  |-> st.calls]
     ELSE IF normalizeProviderKey(entry.providerKey) = <<>>
       THEN [tokens |-> tokens,
             models |-> WriteOutcome(tokens, loading, call, Returned(<<>>)),
             calls  |-> st.calls]
     ELSE [tokens |-> tokens, models |-> loading, calls |-> st.calls \cup {call}]

RECURSIVE StartBatch(_, _, _, _)
StartBatch(st, batchEntries, load, batch) ==
  IF batchEntries = <<>> THEN st
  ELSE StartBatch(StartCall(st, Head(batchEntries), load, batch),
                  Tail(batchEntries), load, batch)

Min(a, b) == IF a < b THEN a ELSE b

BatchAtRest(entries, index) == SubSeq(entries, index + 1, Len(entries))

\* entries.slice(index, index + concurrency)
BatchAt(entries, index) ==
  SubSeq(entries, index + 1, Min(index + concurrency, Len(entries)))

\* The for loop of refreshAllProviderModels from position index on: a batch is
\* started and awaited; a batch none of whose calls is suspended is followed
\* by the next one at once.  Yields [st, index, finished].
RECURSIVE RunBatches(_, _, _, _)
RunBatches(st, load, entries, index) ==
  IF index >= Len(entries) THEN [st |-> st, index |-> index, finished |-> TRUE]
  ELSE LET started == StartBatch(st, BatchAt(entries, index), load, index)
       IN IF \E c \in started.calls : c.load = load
            THEN [st |-> started, index |-> index, finished |-> FALSE]
            ELSE RunBatches(started, load, entries, index + concurrency)

Store == [tokens |-> providerFetchToken, models |-> modelsByProvider, calls |-> calls]

MarkAllLoadingKept(prev, entries) ==
  [id \in DOMAIN prev \cup { entries[i].id : i \in 1..Len(entries) } |->
     IF \E i \in 1..Len(entries) : entries[i].id = id THEN LoadingState(prev, id)
                                                       ELSE prev[id]]

\* Every id of the list gets a loading record; other ids are dropped.
MarkAllLoading(prev, entries) ==
  [id \in { entries[i].id : i \in 1..Len(entries) } |-> LoadingState(prev, id)]

NewLoad(pc) == [pc |-> pc, config |-> EmptyConfig, entries |-> <<>>, index |-> 0]

\* ------------------------------------------------------------------------
\* Agent settings page: model values with a thinking level
\* ------------------------------------------------------------------------

Low    == <<"l","o","w">>
Medium == <<"m","e","d","i","u","m">>
High   == <<"h","i","g","h">>
XHigh  == <<"x","h","i","g","h">>

THINKING_LEVELS == <<Low, Medium, High, XHigh>>

THINKING_LEVEL_SET == Range(THINKING_LEVELS)

\* thinking: ThinkingLevel | null
NoThinking == <<>>

\* The characters "." does not match in a regular expression without the s flag
LineTerminators == {"\n", "\r"}

\* The place of the "(" that /^(.*)\(([^()]+)\)$/ matches in normalized, or 0
\* when the expression does not match: the text ends in ")", its last "(" is
\* followed by at least one character and by no other ")", and no line
\* terminator comes before that "(".
SuffixStart(normalized) ==
  LET n     == Len(normalized)
      Opens == { i \in 1..n : normalized[i] = "(" }
      last  == CHOOSE i \in Opens : \A j \in Opens : j <= i
  IN IF n = 0 \/ normalized[n] # ")" \/ Opens = {} THEN 0
     ELSE IF last + 1 > n - 1 THEN 0
     ELSE IF \E j \in (last + 1)..(n - 1) : normalized[j] = ")" THEN 0
     ELSE IF \E j \in 1..(last - 1) : normalized[j] \in LineTerminators THEN 0
     ELSE last

ParsedModel(baseModel, thinking) == [baseModel |-> baseModel, thinking |-> thinking]

parseModelWithThinking(value) ==
  LET normalized == normalizeText(value)
      open       == SuffixStart(normalized)
      baseModel  == normalizeText(SubSeq(normalized, 1, open - 1))
      rawLevel   == toLowerCase(normalizeText(
                      SubSeq(normalized, open + 1, Len(normalized) - 1)))
  IN IF normalized = <<>> THEN ParsedModel(<<>>, NoThinking)
     ELSE IF open = 0 THEN ParsedModel(normalized, NoThinking)
     ELSE IF baseModel # <<>> /\ rawLevel \in THINKING_LEVEL_SET
       THEN ParsedModel(baseModel, rawLevel)
     ELSE ParsedModel(normalized, NoThinking)

formatModelWithThinkingBare(baseModel, thinking) ==
  normalizeText(baseModel)

formatModelWithThinking(baseModel, thinking) ==
  LET normalized == normalizeText(baseModel)
  IN IF normalized = <<>> THEN <<>>
     ELSE IF thinking = NoThinking THEN normalized
     ELSE normalized \o <<"(">> \o thinking \o <<")">>

\* ------------------------------------------------------------------------
\* JSON values and JSON text
\* ------------------------------------------------------------------------

\* A JSON value.  An object keeps its members in insertion order as the
\* parallel sequences keys / items; an array keeps its elements in items.
\* (No key of the explored files is an integer index, which JavaScript
\* would enumerate first.)
JValue(t, s, keys, items) == [t |-> t, s |-> s, keys |-> keys, items |-> items]

Undefined        == JValue("undefined", <<>>, <<>>, <<>>)
JNull            == JValue("null", <<>>, <<>>, <<>>)
JNumber(digits)  == JValue("number", digits, <<>>, <<>>)
JString(s)       == JValue("string", s, <<>>, <<>>)
JArray(items)    == JValue("array", <<>>, <<>>, items)
JObject(keys, items) == JValue("object", <<>>, keys, items)

EmptyObject == JObject(<<>>, <<>>)

IndexOfKey(obj, key) == CHOOSE i \in 1..Len(obj.keys) : obj.keys[i] = key

HasKey(obj, key) == obj.t = "object" /\ \E i \in 1..Len(obj.keys) : obj.keys[i] = key

\* obj?.[key] for a slot or env key
GetMember(obj, key) ==
  IF HasKey(obj, key) THEN obj.items[IndexOfKey(obj, key)] ELSE Undefined

\* obj[key] = value: an existing key keeps its place, a new key goes last.
SetMember(obj, key, value) ==
  IF HasKey(obj, key)
    THEN [obj EXCEPT !.items[IndexOfKey(obj, key)] = value]
    ELSE [obj EXCEPT !.keys = Append(@, key), !.items = Append(@, value)]

\* delete obj[key]
DeleteMember(obj, key) ==
  IF HasKey(obj, key)
    THEN LET i == IndexOfKey(obj, key)
             n == Len(obj.keys)
         IN [obj EXCEPT !.keys  = SubSeq(@, 1, i - 1) \o SubSeq(@, i + 1, n),
                        !.items = SubSeq(@, 1, i - 1) \o SubSeq(@, i + 1, n)]
    ELSE obj

\* { ...value }: the own enumerable properties of the value.
Spread(value) ==
  CASE value.t = "object" -> value
    [] value.t = "array"  ->
         JObject([i \in 1..Len(value.items) |-> NumberToString(i - 1)], value.items)
    [] value.t = "string" ->
         JObject([i \in 1..Len(value.s) |-> NumberToString(i - 1)],
                 [i \in 1..Len(value.s) |-> JString(<<value.s[i]>>)])
    [] OTHER -> EmptyObject

Comma == <<",">>

RECURSIVE JoinText(_)
JoinText(parts) ==
  IF parts = <<>> THEN <<>>
  ELSE IF Len(parts) = 1 THEN Head(parts)
  ELSE Head(parts) \o Comma \o JoinText(Tail(parts))

\* String(value ?? '')
RECURSIVE ToText(_)
ToText(value) ==
  CASE value.t \in {"undefined", "null"} -> <<>>
    [] value.t \in {"string", "number"}  -> value.s
    [] value.t = "array"  -> JoinText([i \in 1..Len(value.items) |-> ToText(value.items[i])])
    [] OTHER -> <<"[","o","b","j","e","c","t"," ","O","b","j","e","c","t","]">>

\* JSON text is a sequence of tokens: punctuation, null, numbers and strings.
\* White space between tokens (the indentation and final newline that
\* writeJsonToHandle emits) means nothing to JSON.parse and is left out.
Token(t, s) == [t |-> t, s |-> s]

LBrace   == Token("{", <<>>)
RBrace   == Token("}", <<>>)
LBracket == Token("[", <<>>)
RBracket == Token("]", <<>>)
Colon    == Token(":", <<>>)
CommaTok == Token(",", <<>>)
NullTok  == Token("null", <<>>)
Num(digits) == Token("number", digits)
Str(s)      == Token("string", s)

Parsed(value, rest) == [ok |-> TRUE, v |-> value, rest |-> rest]
SyntaxError         == [ok |-> FALSE, v |-> Undefined, rest |-> <<>>]

RECURSIVE ParseValue(_), ParseElements(_, _), ParseMembers(_, _)
ParseValue(toks) ==
  IF toks = <<>> THEN SyntaxError
  ELSE LET h    == Head(toks)
           rest == Tail(toks)
       IN CASE h.t = "null"   -> Parsed(JNull, rest)
            [] h.t = "number" -> Parsed(JNumber(h.s), rest)
            [] h.t = "string" -> Parsed(JString(h.s), rest)
            [] h.t = "["      -> IF rest # <<>> /\ Head(rest).t = "]"
                                   THEN Parsed(JArray(<<>>), Tail(rest))
                                   ELSE ParseElements(rest, <<>>)
            [] h.t = "{"      -> IF rest # <<>> /\ Head(rest).t = "}"
                                   THEN Parsed(EmptyObject, Tail(rest))
                                   ELSE ParseMembers(rest, EmptyObject)
            [] OTHER          -> SyntaxError

ParseElements(toks, items) ==
  LET r == ParseValue(toks)
  IN IF ~r.ok \/ r.rest = <<>> THEN SyntaxError
     ELSE IF Head(r.rest).t = ","
       THEN ParseElements(Tail(r.rest), Append(items, r.v))
     ELSE IF Head(r.rest).t = "]"
       THEN Parsed(JArray(Append(items, r.v)), Tail(r.rest))
     ELSE SyntaxError

\* A repeated key keeps its first place and takes the last value.
ParseMembers(toks, obj) ==
  IF Len(toks) < 3 \/ toks[1].t # "string" \/ toks[2].t # ":" THEN SyntaxError
  ELSE LET r == ParseValue(SubSeq(toks, 3, Len(toks)))
       IN IF ~r.ok \/ r.rest = <<>> THEN SyntaxError
          ELSE IF Head(r.rest).t = ","
            THEN ParseMembers(Tail(r.rest), SetMember(obj, toks[1].s, r.v))
          ELSE IF Head(r.rest).t = "}"
            THEN Parsed(SetMember(obj, toks[1].s, r.v), Tail(r.rest))
          ELSE SyntaxError

\* JSON.parse(text)
JSONparse(text) ==
  LET r == ParseValue(text)
  IN IF r.ok /\ r.rest = <<>> THEN r ELSE SyntaxError

RECURSIVE JoinTokens(_)
JoinTokens(parts) ==
  IF parts = <<>> THEN <<>>
  ELSE IF Len(parts) = 1 THEN Head(parts)
  ELSE Head(parts) \o <<CommaTok>> \o JoinTokens(Tail(parts))

\* JSON.stringify(value, null, 2)
RECURSIVE JSONstringify(_)
JSONstringify(value) ==
  CASE value.t = "object" ->
         <<LBrace>>
           \o JoinTokens([i \in 1..Len(value.keys) |->
                            <<Str(value.keys[i]), Colon>> \o JSONstringify(value.items[i])])
           \o <<RBrace>>
    [] value.t = "array" ->
         <<LBracket>>
           \o JoinTokens([i \in 1..Len(value.items) |-> JSONstringify(value.items[i])])
           \o <<RBracket>>
    [] OTHER -> <<Token(value.t, value.s)>>


\* ------------------------------------------------------------------------
\* Agent settings page: slots and derived values
\* ------------------------------------------------------------------------

ANTHROPIC_MODEL == <<"A","N","T","H","R","O","P","I","C","_","M","O","D","E","L">>

ANTHROPIC_DEFAULT_OPUS_MODEL ==
  <<"A","N","T","H","R","O","P","I","C","_","D","E","F","A","U","L","T","_",
    "O","P","U","S","_","M","O","D","E","L">>

ANTHROPIC_DEFAULT_SONNET_MODEL ==
  <<"A","N","T","H","R","O","P","I","C","_","D","E","F","A","U","L","T","_",
    "S","O","N","N","E","T","_","M","O","D","E","L">>

ANTHROPIC_DEFAULT_HAIKU_MODEL ==
  <<"A","N","T","H","R","O","P","I","C","_","D","E","F","A","U","L","T","_",
    "H","A","I","K","U","_","M","O","D","E","L">>

MODEL_SLOTS == <<ANTHROPIC_MODEL, ANTHROPIC_DEFAULT_OPUS_MODEL,
                 ANTHROPIC_DEFAULT_SONNET_MODEL, ANTHROPIC_DEFAULT_HAIKU_MODEL>>

Slots == Range(MODEL_SLOTS)

EnvKey == <<"e","n","v">>

createEmptyStringSlotRecord == [slot \in Slots |-> <<>>]

createEmptyThinkingSlotRecord == [slot \in Slots |-> NoThinking]

isCodexProvider(entry) ==
  toLowerCase(normalizeText(entry.providerKey)) = <<"c","o","d","e","x">>

\* A render of the page: the values its callbacks close over.  view is
\* [settings, dirtyEnv, thinkingBySlot, selectedProviderBySlot,
\*  providerEntries, modelsByProvider].

\* providerById[id], as a sequence of at most one entry; the last entry with
\* the id wins.
providerById(view, id) ==
  LET Hits == { i \in 1..Len(view.providerEntries) : view.providerEntries[i].id = id }
  IN IF id = <<>> \/ Hits = {} THEN <<>>
     ELSE <<view.providerEntries[CHOOSE i \in Hits : \A j \in Hits : j <= i]>>

originalParsedBySlot(view) ==
  [slot \in Slots |->
     parseModelWithThinking(
       normalizeText(ToText(GetMember(GetMember(view.settings, EnvKey), slot))))]

originalEnv(view) == [slot \in Slots |-> originalParsedBySlot(view)[slot].baseModel]

originalThinkingBySlot(view) ==
  [slot \in Slots |-> originalParsedBySlot(view)[slot].thinking]

providerHasModel(view, entry, modelName) ==
  LET normalizedModel == toLowerCase(normalizeText(modelName))
      state == IF entry.id \in DOMAIN view.modelsByProvider
                 THEN view.modelsByProvider[entry.id]
                 ELSE DEFAULT_MODELS_STATE
  IN /\ normalizedModel # <<>>
     /\ \E i \in 1..Len(state.models) :
          \/ toLowerCase(normalizeText(state.models[i].name)) = normalizedModel
          \/ toLowerCase(normalizeText(state.models[i].alias)) = normalizedModel

\* The first entry that lists the model, as a sequence of at most one entry.
matchProviderByModel(view, modelName) ==
  LET normalizedModel == normalizeText(modelName)
      Hits == { i \in 1..Len(view.providerEntries) :
                  providerHasModel(view, view.providerEntries[i], normalizedModel) }
  IN IF normalizedModel = <<>> \/ Hits = {} THEN <<>>
     ELSE <<view.providerEntries[CHOOSE i \in Hits : \A j \in Hits : i <= j]>>

resolveThinkingCapability(view, slotKey, modelName, preferredProviderId) ==
  LET normalizedModel    == normalizeText(modelName)
      selectedProviderId == IF preferredProviderId # <<>>
                              THEN preferredProviderId
                              ELSE view.selectedProviderBySlot[slotKey]
      selected           == providerById(view, selectedProviderId)
      matched            == matchProviderByModel(view, normalizedModel)
  IN IF normalizedModel = <<>> THEN "unknown"
     ELSE IF selected # <<>> /\ providerHasModel(view, selected[1], normalizedModel)
       THEN IF isCodexProvider(selected[1]) THEN "codex" ELSE "non-codex"
     ELSE IF matched # <<>>
       THEN IF isCodexProvider(matched[1]) THEN "codex" ELSE "non-codex"
     ELSE "unknown"

buildModelValueForSlotAlways(view, slotKey, baseModel, preferredProviderId) ==
  LET normalizedBase == normalizeText(baseModel)
      thinking       == view.thinkingBySlot[slotKey]
  IN IF normalizedBase = <<>> THEN <<>>
     ELSE IF thinking = NoThinking THEN normalizedBase
     ELSE formatModelWithThinking(normalizedBase, thinking)

buildModelValueForSlot(view, slotKey, baseModel, preferredProviderId) ==
  LET normalizedBase == normalizeText(baseModel)
      thinking       == view.thinkingBySlot[slotKey]
      capability     == resolveThinkingCapability(view, slotKey, normalizedBase,
                                                  preferredProviderId)
  IN IF normalizedBase = <<>> THEN <<>>
     ELSE IF thinking = NoThinking THEN normalizedBase
     ELSE IF capability # "codex" THEN normalizedBase
     ELSE formatModelWithThinking(normalizedBase, thinking)

slotChanged(view, slot) ==
  \/ view.dirtyEnv[slot] # originalEnv(view)[slot]
  \/ view.thinkingBySlot[slot] # originalThinkingBySlot(view)[slot]

isDirty(view) == \E slot \in Slots : slotChanged(view, slot)

\* The forEach of buildMergedSettings over the slots from position i on.
RECURSIVE mergeSlots(_, _, _, _)
mergeSlots(view, baseSettings, mergedEnv, i) ==
  IF i > Len(MODEL_SLOTS) THEN mergedEnv
  ELSE LET slot == MODEL_SLOTS[i]
           originalValue ==
             normalizeText(ToText(GetMember(GetMember(baseSettings, EnvKey), slot)))
           value == IF slotChanged(view, slot)
                      THEN buildModelValueForSlot(view, slot, view.dirtyEnv[slot], <<>>)
                      ELSE originalValue
       IN mergeSlots(view, baseSettings,
                     IF value # <<>> THEN SetMember(mergedEnv, slot, JString(value))
                                     ELSE DeleteMember(mergedEnv, slot),
                     i + 1)

buildMergedSettingsEnvOnly(view, baseSettings) ==
  SetMember(EmptyObject, EnvKey,
            mergeSlots(view, baseSettings, Spread(GetMember(baseSettings, EnvKey)), 1))

buildMergedSettings(view, baseSettings) ==
  SetMember(baseSettings, EnvKey,
            mergeSlots(view, baseSettings, Spread(GetMember(baseSettings, EnvKey)), 1))


\* ------------------------------------------------------------------------
\* State of the agent settings page
\* ------------------------------------------------------------------------

VARIABLES
  fsSupported,             \* isFileSystemAccessSupported()
  disk,                    \* the JSON text of the file behind each handle
  savedHandle,             \* the handle kept in IndexedDB
  restoring,               \* the mount timer of restoreSavedHandle is pending
  fileHandle,              \* useState<FileSystemFileHandle | null>
  settings,                \* useState<ClaudeSettings | null>
  dirtyEnv,                \* useState<Record<ModelSlotKey, string>>
  thinkingBySlot,          \* useState<Record<ModelSlotKey, ThinkingLevel | null>>
  selectedProviderBySlot,  \* useState<Record<ModelSlotKey, string>>
  pageStatus,              \* useState<PageStatus>
  loadError,               \* useState('')
  reads,                   \* readSettingsFromHandle invocations awaiting the file
  saves                    \* handleSave invocations awaiting the write

pageVars == <<fsSupported, disk, savedHandle, restoring, fileHandle, settings, dirtyEnv,
              thinkingBySlot, selectedProviderBySlot, pageStatus, loadError, reads, saves>>

NoHandle == "none"

Handles == {"h1", "h2"}

\* The values the callbacks of the current render close over.
View ==
  [settings               |-> settings,
   dirtyEnv               |-> dirtyEnv,
   thinkingBySlot         |-> thinkingBySlot,
   selectedProviderBySlot |-> selectedProviderBySlot,
   providerEntries        |-> providerEntries,
   modelsByProvider       |-> modelsByProvider]

\* The update queued by the effect that gives every slot holding a model but
\* no selected provider the first provider listing the model; prev is the
\* latest selection, view the render the effect runs in.
SelectMatching(view, prev) ==
  IF Len(view.providerEntries) = 0 THEN prev
  ELSE [slot \in Slots |->
          LET matched == matchProviderByModel(view, view.dirtyEnv[slot])
          IN IF prev[slot] # <<>> THEN prev[slot]
             ELSE IF view.dirtyEnv[slot] = <<>> THEN prev[slot]
             ELSE IF matched = <<>> THEN prev[slot]
             ELSE matched[1].id]

\* The update queued by the effect that drops the thinking level of every
\* slot whose selected provider is known and is not codex; prev is the latest
\* record of thinking levels.
ClearNonCodexThinking(view, prev) ==
  [slot \in Slots |->
     LET provider == providerById(view, view.selectedProviderBySlot[slot])
     IN IF prev[slot] = NoThinking THEN prev[slot]
        ELSE IF view.selectedProviderBySlot[slot] = <<>> THEN prev[slot]
        ELSE IF provider = <<>> THEN prev[slot]
        ELSE IF ~isCodexProvider(provider[1]) THEN NoThinking
        ELSE prev[slot]]

\* React commits the state a handler left (view) and runs the effects whose
\* dependencies changed: matching says that dirtyEnv, the entries or the model
\* map changed, clearing that the entries or the selection changed.  What the
\* effects queue is committed in turn, and a changed selection runs the
\* clearing effect once more, in the render that shows it.  Yields the
\* selection and the thinking levels of the last commit.
Commit(view, matching, clearing) ==
  LET selected == IF matching
                    THEN SelectMatching(view, view.selectedProviderBySlot)
                    ELSE view.selectedProviderBySlot
      first    == IF clearing
                    THEN ClearNonCodexThinking(view, view.thinkingBySlot)
                    ELSE view.thinkingBySlot
      second   == [view EXCEPT !.selectedProviderBySlot = selected,
                               !.thinkingBySlot = first]
  IN [selectedProviderBySlot |-> selected,
      thinkingBySlot         |-> IF selected # view.selectedProviderBySlot
                                   THEN ClearNonCodexThinking(second, first)
                                   ELSE first]

\* The page re-renders with what a step of the hook published: a new list of
\* entries (entriesSet) renews providerById and matchProviderByModel, a new
\* model map renews matchProviderByModel.  (Running the matching effect on an
\* equal model map queues the selection it already has.)
PageRender(entriesSet) ==
  LET view == [View EXCEPT !.providerEntries = providerEntries',
                           !.modelsByProvider = modelsByProvider']
      done == Commit(view, entriesSet \/ modelsByProvider' # modelsByProvider, entriesSet)
  IN /\ selectedProviderBySlot' = done.selectedProviderBySlot
     /\ thinkingBySlot' = done.thinkingBySlot
     /\ UNCHANGED <<fsSupported, disk, savedHandle, restoring, fileHandle, settings,
                    dirtyEnv, pageStatus, loadError, reads, saves>>


\* ------------------------------------------------------------------------
\* Agent settings page: files and handlers
\* ------------------------------------------------------------------------

\* A settings file with unknown keys beside and inside env, one slot whose
\* model a codex provider lists and one whose model no provider lists.
SettingsText ==
  <<LBrace,
      Str(<<"a">>), Colon, LBracket, NullTok, CommaTok, Num(<<"1">>), RBracket, CommaTok,
      Str(EnvKey), Colon, LBrace,
        Str(<<"X">>), Colon, Str(<<"1">>), CommaTok,
        Str(ANTHROPIC_MODEL), Colon, Str(<<"m","(","l","o","w",")">>), CommaTok,
        Str(ANTHROPIC_DEFAULT_OPUS_MODEL), Colon, Str(<<"u","(","h","i","g","h",")">>),
      RBrace, CommaTok,
      Str(<<"z">>), Colon, LBrace, Str(EnvKey), Colon, Str(<<"q">>), RBrace,
    RBrace>>

\* A settings file without env, with a repeated key.
NoEnvText ==
  <<LBrace, Str(<<"k">>), Colon, Num(<<"1">>), CommaTok,
            Str(<<"k">>), Colon, Str(<<"v">>), RBrace>>

\* A settings file whose env is null.
NullEnvText ==
  <<LBrace, Str(EnvKey), Colon, NullTok, CommaTok,
            Str(<<"k">>), Colon, NullTok, RBrace>>

\* A settings file whose env is a string.
StringEnvText ==
  <<LBrace, Str(EnvKey), Colon, Str(<<"q">>), CommaTok,
            Str(<<"k">>), Colon, NullTok, RBrace>>

\* Files whose top-level value is not a plain object.
ArrayText  == <<LBracket, LBrace, Str(EnvKey), Colon, LBrace, RBrace, RBrace, RBracket>>
NullText   == <<NullTok>>
StringText == <<Str(<<"m">>)>>
NumberText == <<Num(<<"7">>)>>

\* A file that is not JSON.
BrokenText == <<LBrace, Str(EnvKey)>>

OtherTexts == {NoEnvText, NullEnvText, StringEnvText, ArrayText, NullText, StringText, NumberText,
               BrokenText}

\* t(...) messages and the message of a SyntaxError
PermissionRequired == "agent_settings.file_permission_required"
InvalidJsonObject  == "agent_settings.invalid_json_object"
UnexpectedToken    == "Unexpected token"

IsPlainObjectOrArray(data) == data.t \in {"object", "array"}

\* !(!data || typeof data !== 'object' || Array.isArray(data))
IsPlainObject(data) == data.t = "object"

\* applyLoadedSettings(data), as the view it leaves.
applyLoadedSettings(view, data) ==
  LET env    == GetMember(data, EnvKey)
      parsed == [slot \in Slots |->
                   parseModelWithThinking(normalizeText(ToText(GetMember(env, slot))))]
  IN [view EXCEPT !.settings = data,
                  !.dirtyEnv = [slot \in Slots |-> parsed[slot].baseModel],
                  !.thinkingBySlot = [slot \in Slots |-> parsed[slot].thinking],
                  !.selectedProviderBySlot = createEmptyStringSlotRecord]

\* The state a handler left is committed, with the effects that follow.
Rendered(view, matching, clearing) ==
  LET done == Commit(view, matching, clearing)
  IN /\ settings' = view.settings
     /\ dirtyEnv' = view.dirtyEnv
     /\ selectedProviderBySlot' = done.selectedProviderBySlot
     /\ thinkingBySlot' = done.thinkingBySlot

\* readSettingsFromHandle(handle) up to its first suspension.
StartRead(handle) ==
  /\ pageStatus' = "loading"
  /\ loadError' = ""
  /\ reads' = Append(reads, handle)

\* restoreSavedHandle, run by the mount timer: the saved handle becomes the
\* file handle and, if reading it is permitted without a prompt, is read.
RestoreSavedHandle(granted) ==
  /\ fsSupported
  /\ restoring
  /\ restoring' = FALSE
  /\ IF savedHandle = NoHandle
       THEN UNCHANGED <<fileHandle, pageStatus, loadError, reads>>
     ELSE /\ fileHandle' = savedHandle
          /\ IF granted THEN StartRead(savedHandle)
                        ELSE UNCHANGED <<pageStatus, loadError, reads>>
  /\ UNCHANGED <<fsSupported, disk, savedHandle, settings, dirtyEnv, thinkingBySlot,
                 selectedProviderBySlot, saves>>
  /\ UNCHANGED <<hookVars, callVars>>

\* handleOpenFile: the user picks the file behind handle.
HandleOpenFile(handle, maxReads) ==
  /\ fsSupported
  /\ pageStatus \notin {"loading", "saving"}
  /\ Len(reads) < maxReads
  /\ fileHandle' = handle
  /\ savedHandle' = handle
  /\ StartRead(handle)
  /\ UNCHANGED <<fsSupported, disk, restoring, settings, dirtyEnv, thinkingBySlot,
                 selectedProviderBySlot, saves>>
  /\ UNCHANGED <<hookVars, callVars>>

\* handleReload with a file handle.
HandleReload(maxReads) ==
  /\ fsSupported
  /\ fileHandle # NoHandle
  /\ pageStatus \notin {"loading", "saving"}
  /\ Len(reads) < maxReads
  /\ StartRead(fileHandle)
  /\ UNCHANGED <<fsSupported, disk, savedHandle, restoring, fileHandle, settings, dirtyEnv,
                 thinkingBySlot, selectedProviderBySlot, saves>>
  /\ UNCHANGED <<hookVars, callVars>>

\* The i-th pending readSettingsFromHandle resumes: permission was granted or
\* not, and the text of the file is parsed and, if it is an object, applied.
ReadSettled(i, granted) ==
  /\ i \in 1..Len(reads)
  /\ LET parsed == JSONparse(disk[reads[i]])
         failure == IF ~granted THEN PermissionRequired
                    ELSE IF ~parsed.ok THEN UnexpectedToken
                    ELSE IF ~IsPlainObject(parsed.v) THEN InvalidJsonObject
                    ELSE ""
     IN IF failure # ""
          THEN /\ loadError' = failure
               /\ pageStatus' = "error"
               /\ UNCHANGED <<settings, dirtyEnv, thinkingBySlot, selectedProviderBySlot>>
          ELSE /\ Rendered(applyLoadedSettings(View, parsed.v), TRUE, TRUE)
               /\ loadError' = ""
               /\ pageStatus' = "loaded"
  /\ reads' = SubSeq(reads, 1, i - 1) \o SubSeq(reads, i + 1, Len(reads))
  /\ UNCHANGED <<fsSupported, disk, savedHandle, restoring, fileHandle, saves>>
  /\ UNCHANGED <<hookVars, callVars>>

\* handleSave up to its first suspension; the callback closes over the render
\* in which the button was pressed.
HandleSave(maxSaves) ==
  /\ settings # JNull
  /\ fileHandle # NoHandle
  /\ fsSupported
  /\ isDirty(View)
  /\ pageStatus # "saving"
  /\ Len(saves) < maxSaves
  /\ pageStatus' = "saving"
  /\ saves' = Append(saves, [handle |-> fileHandle, view |-> View])
  /\ UNCHANGED <<fsSupported, disk, savedHandle, restoring, fileHandle, settings, dirtyEnv,
                 thinkingBySlot, selectedProviderBySlot, loadError, reads>>
  /\ UNCHANGED <<hookVars, callVars>>

\* The i-th pending handleSave resumes: with permission the merged settings
\* are written and become the settings of the page.
SaveSettled(i, granted) ==
  /\ i \in 1..Len(saves)
  /\ LET save   == saves[i]
         merged == buildMergedSettings(save.view, save.view.settings)
     IN IF granted
          THEN /\ disk' = [disk EXCEPT ![save.handle] = JSONstringify(merged)]
               /\ settings' = merged
               /\ pageStatus' = "loaded"
               /\ UNCHANGED loadError
          ELSE /\ pageStatus' = "error"
               /\ loadError' = PermissionRequired
               /\ UNCHANGED <<disk, settings>>
  /\ saves' = SubSeq(saves, 1, i - 1) \o SubSeq(saves, i + 1, Len(saves))
  /\ UNCHANGED <<fsSupported, savedHandle, restoring, fileHandle, dirtyEnv, thinkingBySlot,
                 selectedProviderBySlot, reads>>
  /\ UNCHANGED <<hookVars, callVars>>

\* handleReset, from the bar shown while the page is dirty.
HandleReset ==
  /\ isDirty(View)
  /\ pageStatus \in {"loaded", "error"}
  /\ Rendered([View EXCEPT !.dirtyEnv = originalEnv(View),
                           !.thinkingBySlot = originalThinkingBySlot(View)],
              TRUE, FALSE)
  /\ UNCHANGED <<fsSupported, disk, savedHandle, restoring, fileHandle, pageStatus,
                 loadError, reads, saves>>
  /\ UNCHANGED <<hookVars, callVars>>

\* A provider card of the slot is pressed: handleProviderSelect of the slot's
\* card, which calls onThinkingChange(null) for a provider that is not codex,
\* and handleProviderPick.
HandleProviderPick(slotKey, providerId) ==
  /\ settings # JNull
  /\ \E i \in 1..Len(providerEntries) : providerEntries[i].id = providerId
  /\ LET picked == providerById(View, providerId)
     IN Rendered([View EXCEPT
                    !.selectedProviderBySlot[slotKey] = providerId,
                    !.thinkingBySlot[slotKey] =
                       IF picked # <<>> /\ ~isCodexProvider(picked[1]) THEN NoThinking ELSE @],
                 FALSE, TRUE)
  /\ UNCHANGED <<fsSupported, disk, savedHandle, restoring, fileHandle, pageStatus,
                 loadError, reads, saves>>
  /\ UNCHANGED <<hookVars, callVars>>

\* handleModelSelect(slotKey, model, providerId): a model tag is pressed or a
\* typed model is applied; providerId is the provider open in the card, if
\* one is.
HandleModelSelect(slotKey, model, providerId) ==
  /\ settings # JNull
  /\ normalizeText(model) # <<>>
  /\ providerId # <<>> => /\ providerId = selectedProviderBySlot[slotKey]
                          /\ providerById(View, providerId) # <<>>
  /\ LET parsed     == parseModelWithThinking(model)
         nextModel  == parsed.baseModel
         capability == resolveThinkingCapability(View, slotKey, nextModel, providerId)
     IN Rendered([View EXCEPT
                    !.dirtyEnv[slotKey] = nextModel,
                    !.selectedProviderBySlot[slotKey] =
                       IF providerId # <<>> THEN providerId ELSE @,
                    !.thinkingBySlot[slotKey] =
                       IF nextModel = <<>> THEN NoThinking
                       ELSE IF capability # "codex" THEN NoThinking
                       ELSE IF parsed.thinking # NoThinking THEN parsed.thinking
                       ELSE @],
                 TRUE, providerId # <<>>)
  /\ UNCHANGED <<fsSupported, disk, savedHandle, restoring, fileHandle, pageStatus,
                 loadError, reads, saves>>
  /\ UNCHANGED <<hookVars, callVars>>

\* handleModelClear(slotKey), from the button shown while the slot has a value.
HandleModelClear(slotKey) ==
  /\ settings # JNull
  /\ dirtyEnv[slotKey] # <<>>
  /\ Rendered([View EXCEPT !.dirtyEnv[slotKey] = <<>>,
                           !.thinkingBySlot[slotKey] = NoThinking],
              TRUE, FALSE)
  /\ UNCHANGED <<fsSupported, disk, savedHandle, restoring, fileHandle, pageStatus,
                 loadError, reads, saves>>
  /\ UNCHANGED <<hookVars, callVars>>

\* handleThinkingChange(slotKey, value), from the level buttons, which the
\* card shows while its open provider is codex and lists the slot's model.
HandleThinkingChange(slotKey, value) ==
  /\ settings # JNull
  /\ dirtyEnv[slotKey] # <<>>
  /\ LET active == providerById(View, selectedProviderBySlot[slotKey])
     IN /\ active # <<>>
        /\ isCodexProvider(active[1])
        /\ providerHasModel(View, active[1], dirtyEnv[slotKey])
  /\ Rendered([View EXCEPT !.thinkingBySlot[slotKey] = value], FALSE, FALSE)
  /\ UNCHANGED <<fsSupported, disk, savedHandle, restoring, fileHandle, pageStatus,
                 loadError, reads, saves>>
  /\ UNCHANGED <<hookVars, callVars>>

\* The page as mounted, before its timer has run.
PageInit(supported, files, saved) ==
  /\ fsSupported = supported
  /\ disk = files
  /\ savedHandle = saved
  /\ restoring = TRUE
  /\ fileHandle = NoHandle
  /\ settings = JNull
  /\ dirtyEnv = createEmptyStringSlotRecord
  /\ thinkingBySlot = createEmptyThinkingSlotRecord
  /\ selectedProviderBySlot = createEmptyStringSlotRecord
  /\ pageStatus = "idle"
  /\ loadError = ""
  /\ reads = <<>>
  /\ saves = <<>>


\* The page with no file chosen and none remembered.
PageIdle == PageInit(TRUE, [handle \in Handles |-> SettingsText], NoHandle)

\* ------------------------------------------------------------------------
\* Hook actions
\* ------------------------------------------------------------------------

\* loadPageData up to its first suspension.  It runs from the mount effect,
\* from the refresh button, and again whenever the connection state changes
\* (the effect depends on the callback, the callback on authState); conn is
\* the connection state it finds.
LoadPageData(conn, maxLoads) ==
  /\ Len(loads) < maxLoads
  /\ connected' = conn
  /\ IF ~conn
       THEN /\ providerEntries' = <<>>
            /\ modelsByProvider' = EmptyMap
            /\ loads' = Append(loads, NewLoad("done"))
            /\ UNCHANGED pageLoading
       ELSE /\ pageLoading' = TRUE
            /\ loads' = Append(loads, NewLoad("config"))
            /\ UNCHANGED <<providerEntries, modelsByProvider>>
  /\ UNCHANGED <<backend, providerFetchToken, calls, reloads, lastDone>>
  /\ UNCHANGED callVars
  /\ PageRender(~conn)

\* await fetchConfig(...) resolves with the configuration.
FetchConfigResolve(l) ==
  /\ loads[l].pc = "config"
  /\ loads' = [loads EXCEPT ![l].pc = "lists", ![l].config = Backends[backend].config]
  /\ UNCHANGED <<connected, backend, providerEntries, modelsByProvider, pageLoading,
                 providerFetchToken, calls, reloads, lastDone>>
  /\ UNCHANGED callVars
  /\ PageRender(FALSE)

\* await fetchConfig(...) rejects: catch (notification), finally.
FetchConfigReject(l) ==
  /\ loads[l].pc = "config"
  /\ loads' = [loads EXCEPT ![l] = NewLoad("done")]
  /\ pageLoading' = FALSE
  /\ UNCHANGED <<connected, backend, providerEntries, modelsByProvider,
                 providerFetchToken, calls, reloads, lastDone>>
  /\ UNCHANGED callVars
  /\ PageRender(FALSE)

\* The Promise.all of the list calls resolves (a failed list call falls back
\* to an empty value), the entries are built and published, and
\* refreshAllProviderModels runs up to its first suspension.
ListsResolve(l, filesOk, aliasOk, excludedOk) ==
  /\ loads[l].pc = "lists"
  /\ LET authFiles   == IF filesOk THEN Backends[backend].files ELSE <<>>
         aliasMap    == IF aliasOk THEN Backends[backend].aliasMap ELSE <<>>
         excludedMap == IF excludedOk THEN Backends[backend].excludedMap ELSE <<>>
         entries     == buildAuthProviderEntries(authFiles, aliasMap, excludedMap)
                          \o buildConfiguredEntries(loads[l].config)
         marked      == [Store EXCEPT !.models = MarkAllLoading(modelsByProvider, entries)]
         run         == RunBatches(marked, l, entries, 0)
     IN /\ providerEntries' = entries
        /\ IF entries = <<>>
             THEN /\ modelsByProvider' = EmptyMap
                  /\ pageLoading' = FALSE
                  /\ loads' = [loads EXCEPT ![l] = NewLoad("done")]
                  /\ UNCHANGED <<providerFetchToken, calls, lastDone>>
             ELSE /\ modelsByProvider' = run.st.models
                  /\ providerFetchToken' = run.st.tokens
                  /\ calls' = run.st.calls
                  /\ UNCHANGED lastDone
                  /\ IF run.finished
                       THEN /\ loads' = [loads EXCEPT ![l] = NewLoad("done")]
                            /\ pageLoading' = FALSE
                       ELSE /\ loads' = [loads EXCEPT ![l].pc = "refresh",
                                                      ![l].entries = entries,
                                                      ![l].index = run.index]
                            /\ UNCHANGED pageLoading
  /\ UNCHANGED <<connected, backend, reloads>>
  /\ UNCHANGED callVars
  /\ PageRender(TRUE)

\* reloadProviderModels(providerId): the first entry with that id is refreshed.
ReloadProviderModels(i, maxReloads) ==
  /\ reloads < maxReloads
  /\ i \in 1..Len(providerEntries)
  /\ \A j \in 1..(i - 1) : providerEntries[j].id # providerEntries[i].id
  /\ LET st == StartCall(Store, providerEntries[i], 0, 0)
     IN /\ modelsByProvider' = st.models
        /\ providerFetchToken' = st.tokens
        /\ calls' = st.calls
  /\ reloads' = reloads + 1
  /\ UNCHANGED <<connected, backend, providerEntries, pageLoading, loads, lastDone>>
  /\ UNCHANGED callVars
  /\ PageRender(FALSE)

FallbackOutcomeStrict(call, settled) ==
  LET fulfilled == SelectSeq(settled, LAMBDA r : r.k = "fulfilled")
      collected == Concat([i \in 1..Len(fulfilled) |->
                             normalizeAuthApiModels(fulfilled[i].value)])
  IN IF call.definitionError # NoError
       THEN Threw(call.definitionError)
       ELSE Returned(FinishModels(call.entry, dedupeModels(collected)))

FallbackOutcomeSwallow(call, settled) ==
  LET fulfilled == SelectSeq(settled, LAMBDA r : r.k = "fulfilled")
      collected == Concat([i \in 1..Len(fulfilled) |->
                             normalizeAuthApiModels(fulfilled[i].value)])
  IN Returned(FinishModels(call.entry, dedupeModels(collected)))

\* The value fetchAuthProxyModels returns or throws once every per-file call
\* has settled.
FallbackOutcome(call, settled) ==
  LET fulfilled    == SelectSeq(settled, LAMBDA r : r.k = "fulfilled")
      collected    == Concat([i \in 1..Len(fulfilled) |->
                                normalizeAuthApiModels(fulfilled[i].value)])
      hasFulfilled == Len(fulfilled) > 0
  IN IF ~hasFulfilled /\ call.definitionError # NoError
       THEN Threw(call.definitionError)
       ELSE Returned(FinishModels(call.entry, dedupeModels(collected)))

\* refreshSingleProviderModels resumes after await fetchAuthProxyModels(entry)
\* with the value or exception it got, and its promise settles.  When it was
\* the last pending call of a batch the Promise.all of that batch resolves and
\* the loop of refreshAllProviderModels goes on in the same turn; when it
\* rejects, the Promise.all rejects and loadPageData ends through its catch
\* and finally blocks.  waiting is the call as it was awaiting, call the same
\* with the responses it has got.
ResumeRefresh(waiting, call, outcome) ==
  LET l       == call.load
      written == WriteOutcome(providerFetchToken, modelsByProvider, call, outcome)
      ended   == Ended(providerFetchToken, call, outcome)
      rest    == calls \ {waiting}
      st      == [tokens |-> providerFetchToken, models |-> written, calls |-> rest]
      awaited == l # 0 /\ loads[l].pc = "refresh"
      run     == RunBatches(st, l, loads[l].entries, loads[l].index + concurrency)
  IN /\ lastDone' = ended
     /\ IF ~awaited \/ (ended.result = "resolved" /\ \E c \in rest : c.load = l)
          THEN /\ modelsByProvider' = written
               /\ calls' = rest
               /\ UNCHANGED <<providerFetchToken, loads, pageLoading>>
        ELSE IF ended.result = "rejected"
          THEN /\ modelsByProvider' = written
               /\ calls' = rest
               /\ loads' = [loads EXCEPT ![l] = NewLoad("done")]
               /\ pageLoading' = FALSE
               /\ UNCHANGED providerFetchToken
        ELSE /\ modelsByProvider' = run.st.models
             /\ providerFetchToken' = run.st.tokens
             /\ calls' = run.st.calls
             /\ IF run.finished
                  THEN /\ loads' = [loads EXCEPT ![l] = NewLoad("done")]
                       /\ pageLoading' = FALSE
                  ELSE /\ loads' = [loads EXCEPT ![l].index = run.index]
                       /\ UNCHANGED pageLoading

AsksFilesAlways(models, entry) == Len(entry.authFileNames) > 0

\* models.length === 0 && entry.authFileNames?.length
AsksFiles(models, entry) == Len(models) = 0 /\ Len(entry.authFileNames) > 0

\* authFilesApi.getModelDefinitions(providerKey) settles with response r:
\* fetchAuthProxyModels either returns the listed models, and the refresh
\* resumes in the same turn, or asks every credential file for its models.
ResolveDefinitions(call, r) ==
  /\ call \in calls
  /\ call.pc = "defs"
  /\ LET models == IF r.k = "fulfilled" THEN normalizeAuthApiModels(r.value) ELSE <<>>
         error  == IF r.k = "fulfilled" THEN NoError ELSE r.reason
         next   == [call EXCEPT !.pc = "files", !.definitionError = error]
     IN IF AsksFiles(models, call.entry)
          THEN /\ calls' = (calls \ {call}) \cup {next}
               /\ UNCHANGED <<modelsByProvider, pageLoading, providerFetchToken,
                              loads, lastDone>>
          ELSE ResumeRefresh(call, [call EXCEPT !.definitionError = error],
                             Returned(FinishModels(call.entry, models)))
  /\ UNCHANGED <<connected, backend, providerEntries, reloads>>
  /\ UNCHANGED callVars
  /\ PageRender(FALSE)

\* authFilesApi.getModelsForAuthFile(fileName) settles for the i-th file; when
\* it is the last one the Promise.allSettled continuation runs and the
\* refresh resumes in the same turn.
SettleFile(call, i, r) ==
  /\ call \in calls
  /\ call.pc = "files"
  /\ i \in 1..Len(call.files)
  /\ call.files[i].k = "pending"
  /\ LET settled == [call.files EXCEPT ![i] = r]
         next    == [call EXCEPT !.files = settled]
     IN IF \E j \in 1..Len(settled) : settled[j].k = "pending"
          THEN /\ calls' = (calls \ {call}) \cup {next}
               /\ UNCHANGED <<modelsByProvider, pageLoading, providerFetchToken,
                              loads, lastDone>>
          ELSE ResumeRefresh(call, next, FallbackOutcome(call, settled))
  /\ UNCHANGED <<connected, backend, providerEntries, reloads>>
  /\ UNCHANGED callVars
  /\ PageRender(FALSE)

\* The backend's data changes (environment).
BackendChange(from, to) ==
  /\ backend = from
  /\ backend' = to
  /\ UNCHANGED <<connected, providerEntries, modelsByProvider, pageLoading,
                 providerFetchToken, calls, loads, reloads, lastDone>>
  /\ UNCHANGED callVars
  /\ PageRender(FALSE)

HookInit(served) ==
  /\ connected \in BOOLEAN
  /\ backend = served
  /\ providerEntries = <<>>
  /\ modelsByProvider = EmptyMap
  /\ pageLoading = FALSE
  /\ providerFetchToken = EmptyMap
  /\ calls = {}
  /\ loads = <<>>
  /\ reloads = 0
  /\ lastDone = NoneEnded

\* The hook after its mount effect has called loadPageData on a connected
\* page: the configuration is being fetched.
HookMounted(served) ==
  /\ connected = TRUE
  /\ backend = served
  /\ providerEntries = <<>>
  /\ modelsByProvider = EmptyMap
  /\ pageLoading = TRUE
  /\ providerFetchToken = EmptyMap
  /\ calls = {}
  /\ loads = <<NewLoad("config")>>
  /\ reloads = 0
  /\ lastDone = NoneEnded

vars == <<hookVars, callVars, pageVars>>

\* Interleavings of page loads, single reloads and their listing calls.
Init == HookInit("A") /\ CallsIdle /\ PageIdle

Next ==
  \/ \E conn \in BOOLEAN : LoadPageData(conn, MaxLoads)
  \/ \E l \in 1..Len(loads) : FetchConfigResolve(l)
  \/ \E l \in 1..Len(loads) : FetchConfigReject(l)
  \/ \E l \in 1..Len(loads) : \E f, a, x \in BOOLEAN : ListsResolve(l, f, a, x)
  \/ \E i \in 1..Len(providerEntries) : ReloadProviderModels(i, MaxReloads)
  \/ \E call \in calls : \E r \in DefinitionResponses : ResolveDefinitions(call, r)
  \/ \E call \in calls : \E i \in 1..Len(call.files) : \E r \in FileResponses :
       SettleFile(call, i, r)
  \/ BackendChange("A", "B")

Spec == Init /\ [][Next]_vars

\* The resolution of the models of one auth-proxy entry with two credential
\* files, under every kind of response, in the load made on mount (without
\* reloads).
InitFetch == HookMounted("F") /\ CallsIdle /\ PageIdle

NextFetch ==
  \/ \E l \in 1..Len(loads) : FetchConfigResolve(l)
  \/ \E l \in 1..Len(loads) : FetchConfigReject(l)
  \/ \E l \in 1..Len(loads) : \E a, x \in BOOLEAN : ListsResolve(l, TRUE, a, x)
  \/ \E call \in calls : \E r \in AllDefinitionResponses : ResolveDefinitions(call, r)
  \/ \E call \in calls : \E i \in 1..Len(call.files) : \E r \in AllFileResponses :
       SettleFile(call, i, r)

SpecFetch == InitFetch /\ [][NextFetch]_vars

\* The load made on mount over six entries, five of them auth-proxy entries,
\* with reloads of an entry of the first batch and of one of the second.
BatchReloads == { i \in 1..Len(providerEntries) : i % concurrency = 1 }

InitBatch == HookMounted("G") /\ CallsIdle /\ PageIdle

NextBatch ==
  \/ \E l \in 1..Len(loads) : FetchConfigResolve(l)
  \/ \E l \in 1..Len(loads) : FetchConfigReject(l)
  \/ \E l \in 1..Len(loads) : ListsResolve(l, TRUE, TRUE, TRUE)
  \/ \E i \in BatchReloads : ReloadProviderModels(i, MaxReloads)
  \/ \E call \in calls : \E r \in BatchDefinitionResponses : ResolveDefinitions(call, r)
  \/ \E call \in calls : \E i \in 1..Len(call.files) : \E r \in BatchFileResponses :
       SettleFile(call, i, r)

SpecBatch == InitBatch /\ [][NextBatch]_vars

\* The same load, without reloads, with every kind of thrown value.
NextErrors ==
  \/ \E l \in 1..Len(loads) : FetchConfigResolve(l)
  \/ \E l \in 1..Len(loads) : FetchConfigReject(l)
  \/ \E l \in 1..Len(loads) : ListsResolve(l, TRUE, TRUE, TRUE)
  \/ \E call \in calls : \E r \in ErrorDefinitionResponses : ResolveDefinitions(call, r)
  \/ \E call \in calls : \E i \in 1..Len(call.files) : \E r \in BatchFileResponses :
       SettleFile(call, i, r)

SpecErrors == InitBatch /\ [][NextErrors]_vars

\* ------------------------------------------------------------------------
\* Properties of the hook
\* ------------------------------------------------------------------------

\* The call that ends in the step, if one does: the refreshSingleProviderModels
\* invocation that got its value or exception and is recorded in lastDone'.
Ending ==
  { c \in calls : /\ lastDone' # lastDone
                  /\ c.entry.id = lastDone'.id
                  /\ c.token = lastDone'.token }

RecordOf(map, id) == IF id \in DOMAIN map THEN <<map[id]>> ELSE <<>>

\* C1: a call that is no longer the latest-started one for its id leaves the
\* record of the id as it is when it ends; a record only becomes a success or
\* an error record through the call that is the latest-started one for the
\* id, whose result it then holds, in whatever order the calls resolve.
C1_LatestStartedWins ==
  [][ /\ \A c \in Ending :
           IF providerFetchToken[c.entry.id] # c.token
             THEN RecordOf(modelsByProvider', c.entry.id)
                    = RecordOf(modelsByProvider, c.entry.id)
             ELSE /\ c.entry.id \in DOMAIN modelsByProvider'
                  /\ modelsByProvider'[c.entry.id].status
                       = (IF lastDone'.outcome.k = "ok" THEN "success" ELSE "error")
                  /\ lastDone'.outcome.k = "ok"
                       => modelsByProvider'[c.entry.id].models = lastDone'.outcome.models
      /\ \A id \in DOMAIN modelsByProvider' :
           ( /\ modelsByProvider'[id].status \in {"success", "error"}
             /\ RecordOf(modelsByProvider, id) # <<modelsByProvider'[id]>> )
           => \/ \E c \in Ending : c.entry.id = id /\ c.token = providerFetchToken[id]
              \/ /\ providerFetchToken'[id] > TokenOf(providerFetchToken, id)
                 /\ \A c \in calls' : c.entry.id = id => c.token < providerFetchToken'[id]
    ]_vars

\* A call that was overtaken and failed has ended last, and the record of its
\* id holds the success of the newer call.
C1_Witness ==
  /\ lastDone.k = "ended"
  /\ lastDone.stale
  /\ lastDone.outcome.k = "throw"
  /\ lastDone.id \in DOMAIN modelsByProvider
  /\ modelsByProvider[lastDone.id].status = "success"
  /\ \A c \in calls : c.entry.id # lastDone.id

\* C2: whenever the record of an id is a loading record after a step, its
\* models are the models the id had before the step (none when it had no
\* record), so a loading record never has fewer models than the one it
\* replaced.
C2_LoadingKeepsModels ==
  [][ \A id \in DOMAIN modelsByProvider' :
        modelsByProvider'[id].status = "loading"
        => modelsByProvider'[id].models
             = (IF id \in DOMAIN modelsByProvider
                  THEN modelsByProvider[id].models ELSE <<>>)
    ]_vars

\* A record is loading and still shows the models of an earlier success.
C2_Witness ==
  \E id \in DOMAIN modelsByProvider :
    /\ modelsByProvider[id].status = "loading"
    /\ modelsByProvider[id].models # <<>>

\* C3: the calls of one refreshAllProviderModels run that are in flight all
\* belong to one batch, the current one, of at most 4 entries that are
\* consecutive in the list and start at a multiple of 4; and a call of the
\* run is started only in a step after which no call of the run that was in
\* flight before is left.
C3_BatchesOfFour ==
  [][ \A l \in 1..Len(loads') :
        loads'[l].pc = "refresh"
        => LET inflight == { c \in calls' : c.load = l }
               index    == loads'[l].index
               entries  == loads'[l].entries
               before   == { d \in calls : d.load = l }
               started  == { c \in inflight :
                               \A d \in before : d.entry.id # c.entry.id }
           IN /\ Cardinality(inflight) <= 4
              /\ index % 4 = 0
              /\ \A c \in inflight :
                   /\ c.batch = index
                   /\ \E i \in (index + 1)..(index + 4) :
                        i <= Len(entries) /\ entries[i] = c.entry
              /\ started # {}
                   => \A d \in before :
                        \A c \in inflight : c.entry.id # d.entry.id
    ]_vars

\* The second batch of a run is in flight and every entry of the first batch
\* has its result.
C3_Witness ==
  \E l \in 1..Len(loads) :
    /\ loads[l].pc = "refresh"
    /\ loads[l].index = 4
    /\ \E c \in calls : c.load = l
    /\ \A i \in 1..4 :
         /\ loads[l].entries[i].id \in DOMAIN modelsByProvider
         /\ modelsByProvider[loads[l].entries[i].id].status \in {"success", "error"}

\* C4: when the call of an auth-proxy entry that is still the latest for its
\* id ends after its definitions call failed and none of its per-file calls
\* succeeded, the record of the id becomes an error record whose message is
\* the display string of the definitions failure, not that of a per-file
\* failure.
C4_DefinitionsErrorReported ==
  [][ \A c \in Ending :
        ( /\ c.entry.sourceKind = "auth-proxy"
          /\ lastDone'.definitionError # NoError
          /\ \A i \in 1..Len(lastDone'.files) : lastDone'.files[i].k # "fulfilled"
          /\ providerFetchToken[c.entry.id] = c.token )
        => /\ c.entry.id \in DOMAIN modelsByProvider'
           /\ modelsByProvider'[c.entry.id].status = "error"
           /\ modelsByProvider'[c.entry.id].hasError
           /\ modelsByProvider'[c.entry.id].error = ErrorMessage(lastDone'.definitionError)
           /\ modelsByProvider'[c.entry.id].error # FileError.text
    ]_vars

\* The definitions call and both per-file calls of an entry failed, and its
\* record shows the message of the definitions failure.
C4_Witness ==
  /\ lastDone.k = "ended"
  /\ ~lastDone.stale
  /\ lastDone.definitionError = DefinitionError
  /\ Len(lastDone.files) > 1
  /\ \A i \in 1..Len(lastDone.files) : lastDone.files[i] = Rejected(FileError)
  /\ lastDone.id \in DOMAIN modelsByProvider
  /\ modelsByProvider[lastDone.id].status = "error"
  /\ modelsByProvider[lastDone.id].error = DefinitionError.text

\* C5: when the call of an auth-proxy entry that is still the latest for its
\* id ends after at least one of its per-file calls succeeded (they are only
\* made when the definitions call failed or listed no model), the record of
\* the id becomes a success record without error whose models are those of
\* the per-file calls that succeeded, in file order, deduplicated, aliased and
\* filtered.
C5_PartialSuccess ==
  [][ \A c \in Ending :
        ( /\ c.entry.sourceKind = "auth-proxy"
          /\ \E i \in 1..Len(lastDone'.files) : lastDone'.files[i].k = "fulfilled"
          /\ providerFetchToken[c.entry.id] = c.token )
        => LET succeeded == SelectSeq(lastDone'.files, LAMBDA r : r.k = "fulfilled")
               collected == Concat([i \in 1..Len(succeeded) |->
                                      normalizeAuthApiModels(succeeded[i].value)])
               expected  == filterExcludedModels(
                              applyAliasLookup(dedupeModels(collected), c.entry.aliasLookup),
                              c.entry.excludedPatterns)
           IN /\ c.entry.id \in DOMAIN modelsByProvider'
              /\ modelsByProvider'[c.entry.id]
                   = [status |-> "success", models |-> expected,
                      hasError |-> FALSE, error |-> <<>>]
    ]_vars

\* The definitions call failed, one per-file call failed and the other
\* succeeded, and the record of the id is a success with models.
C5_Witness ==
  /\ lastDone.k = "ended"
  /\ ~lastDone.stale
  /\ lastDone.definitionError # NoError
  /\ \E i, j \in 1..Len(lastDone.files) :
       lastDone.files[i].k = "rejected" /\ lastDone.files[j].k = "fulfilled"
  /\ lastDone.id \in DOMAIN modelsByProvider
  /\ modelsByProvider[lastDone.id].status = "success"
  /\ modelsByProvider[lastDone.id].models # <<>>

\* What is common to C6 as stated and as amended: the promise of a call never
\* rejects, a failed call that is the latest for its id leaves an error
\* record, and a run of refreshAllProviderModels only ends in its last batch.
C6_NeverRejects ==
  /\ lastDone'.k = "ended" => lastDone'.result = "resolved"
  /\ \A c \in Ending :
       (lastDone'.outcome.k = "throw" /\ providerFetchToken[c.entry.id] = c.token)
       => /\ c.entry.id \in DOMAIN modelsByProvider'
          /\ modelsByProvider'[c.entry.id].status = "error"
  /\ \A l \in 1..Len(loads) :
       (loads[l].pc = "refresh" /\ loads'[l].pc = "done")
       => loads[l].index + 4 >= Len(loads[l].entries)

\* C6 (as stated): refreshSingleProviderModels never rejects; the message
\* stored for a failed call is Error.message for an Error and the raw value
\* for every thrown value that is not an Error; refreshAllProviderModels
\* completes all batches.
C6_RawValueForEveryNonError ==
  [][ /\ C6_NeverRejects
      /\ \A c \in Ending :
           (lastDone'.outcome.k = "throw" /\ providerFetchToken[c.entry.id] = c.token)
           => modelsByProvider'[c.entry.id].error = lastDone'.outcome.error.text
    ]_vars

\* C6 (amended): refreshSingleProviderModels never rejects; the message stored
\* for a failed call is Error.message for an Error, the raw value when the
\* thrown value is a string, and the generic fallback message for any other
\* thrown value; refreshAllProviderModels completes all batches.
C6_RawValueForStrings ==
  [][ /\ C6_NeverRejects
      /\ \A c \in Ending :
           (lastDone'.outcome.k = "throw" /\ providerFetchToken[c.entry.id] = c.token)
           => modelsByProvider'[c.entry.id].error
                = (IF lastDone'.outcome.error.k \in {"Error", "string"}
                     THEN lastDone'.outcome.error.text
                     ELSE <<"l","o","a","d","_","f","a","i","l","e","d">>)
    ]_vars

\* A run has ended with a record for each of its entries, among them, in its
\* first batch, one of each kind of failure.
C6_Witness ==
  /\ providerEntries # <<>>
  /\ calls = {}
  /\ ~pageLoading
  /\ \A i \in 1..Len(providerEntries) :
       /\ providerEntries[i].id \in DOMAIN modelsByProvider
       /\ modelsByProvider[providerEntries[i].id].status \in {"success", "error"}
  /\ \A e \in {DefinitionError, DefinitionString} :
       \E i \in 1..4 : modelsByProvider[providerEntries[i].id].error = e.text
  /\ \E i \in 1..4 : modelsByProvider[providerEntries[i].id].error = ModelsLoadFailed

\* ------------------------------------------------------------------------
\* parseModelWithThinking and formatModelWithThinking on bounded texts
\* ------------------------------------------------------------------------

\* Bound: the length of the explored base model names
MaxNameLen == 3

NameChars == {"x", "(", ")", " ", "\n"}

Names == TextsUpTo(NameChars, MaxNameLen)

\* What the explored model values carry between their last parentheses
Suffixes == Range(THINKING_LEVELS)
              \cup { <<"H","i","g","h">>, <<" ","l","o","w"," ">>, <<"x">>, <<>> }

Parenthesised(base, suffix) == base \o <<"(">> \o suffix \o <<")">>

\* The argument of a chain of calls that starts with fn
Argument(fn, value, thinking) == [fn |-> fn, value |-> value, thinking |-> thinking]

ThinkingArguments ==
  { Argument("format", base, level) :
      base \in Names, level \in THINKING_LEVEL_SET \cup {NoThinking} }
  \cup { Argument("parse", value, NoThinking) : value \in Names }
  \cup { Argument("parse", Parenthesised(base, suffix), NoThinking) :
           base \in Names, suffix \in Suffixes }

\* parseModelWithThinking(value), on the argument or on what
\* formatModelWithThinking returned
ParseModelWithThinking ==
  /\ \/ input.fn = "parse" /\ output = <<>>
        /\ output' = <<parseModelWithThinking(input.value)>>
     \/ input.fn = "format" /\ Len(output) = 1
        /\ output' = Append(output, parseModelWithThinking(output[1]))
  /\ UNCHANGED <<hookVars, pageVars, input>>

\* formatModelWithThinking(baseModel, thinking), on the argument or on what
\* parseModelWithThinking returned
FormatModelWithThinking ==
  /\ \/ input.fn = "format" /\ output = <<>>
        /\ output' = <<formatModelWithThinking(input.value, input.thinking)>>
     \/ input.fn = "parse" /\ Len(output) = 1
        /\ output' = Append(output, formatModelWithThinking(output[1].baseModel,
                                                            output[1].thinking))
  /\ UNCHANGED <<hookVars, pageVars, input>>

InitThinking == HookInit("A") /\ PageIdle /\ input \in ThinkingArguments /\ output = <<>>

NextThinking == ParseModelWithThinking \/ FormatModelWithThinking

\* A model value parsed and formatted back, or formatted and parsed back
SpecThinking == InitThinking /\ [][NextThinking]_vars

IsTrimmedName(base) == base # <<>> /\ normalizeText(base) = base

HasLineBreak(text) == \E i \in 1..Len(text) : text[i] \in LineTerminators

\* value is base "(" suffix ")", the suffix holding no parenthesis
EndsInParentheses(value, base, suffix) ==
  /\ value = Parenthesised(base, suffix)
  /\ \A i \in 1..Len(suffix) : suffix[i] \notin {"(", ")"}

Splits(value) ==
  { <<SubSeq(value, 1, k), SubSeq(value, k + 2, Len(value) - 1)>> : k \in 0..(Len(value) - 2) }

\* format then parse gives back the base and the level (bases in Bases)
RoundTripFromParts(Bases) ==
  (/\ input.fn = "format"
   /\ input.value \in Bases
   /\ input.thinking \in THINKING_LEVEL_SET
   /\ Len(output) = 2)
    => output[2] = ParsedModel(input.value, input.thinking)

\* parse then format gives back the literal base(level) (bases in Bases)
RoundTripFromLiteral(Bases) ==
  (/\ input.fn = "parse"
   /\ \E base \in Bases : \E level \in THINKING_LEVEL_SET :
        input.value = Parenthesised(base, level)
   /\ Len(output) = 2)
    => output[2] = input.value

\* a value ending in a parenthesised suffix outside Levels is all base model
OtherSuffixKept(IsLevel(_)) ==
  (/\ input.fn = "parse"
   /\ normalizeText(input.value) = input.value
   /\ \E split \in Splits(input.value) :
        /\ EndsInParentheses(input.value, split[1], split[2])
        /\ ~IsLevel(split[2])
   /\ Len(output) >= 1)
    => output[1] = ParsedModel(input.value, NoThinking)

TrimmedNames == { base \in Names : IsTrimmedName(base) }

IsExactLevel(suffix) == suffix \in THINKING_LEVEL_SET

IsLevelIgnoringCase(suffix) == toLowerCase(normalizeText(suffix)) \in THINKING_LEVEL_SET

\* C11 as stated: for every non-empty trimmed base model name and every level,
\* parsing the formatted value gives back base and level, formatting the
\* parse of the literal base(level) gives back the literal, and a
\* parenthesised suffix that is not one of the four levels stays in the base
\* model with no thinking level.
C11_RoundTripEveryName ==
  /\ RoundTripFromParts(TrimmedNames)
  /\ RoundTripFromLiteral(TrimmedNames)
  /\ OtherSuffixKept(IsExactLevel)

\* C11, amended: parsing the formatted value gives back base and level for
\* the non-empty trimmed base model names without a line break, formatting
\* the parse of a literal base(level) gives back the literal, and a
\* parenthesised suffix stays in the base model, with no thinking level, when
\* it is not one of the four levels ignoring case and surrounding white space.
C11_RoundTripOneLineNames ==
  /\ RoundTripFromParts({ base \in TrimmedNames : ~HasLineBreak(base) })
  /\ RoundTripFromLiteral(TrimmedNames)
  /\ OtherSuffixKept(IsLevelIgnoringCase)

\* A name holding a parenthesis was formatted with a level and parsed back.
C11_Witness ==
  /\ input # NoCall
  /\ input.fn = "format"
  /\ input.value = <<"x", "(">>
  /\ input.thinking = High
  /\ Len(output) = 2

\* ------------------------------------------------------------------------
\* API endpoints page: the list of API keys of the configuration
\* ------------------------------------------------------------------------

\* A JavaScript value as far as normalizeApiKeyList tells values apart: its
\* type, its text (of a string or number) and, for a plain object, the
\* values of the four properties that are read.
KeyProperties == {"api-key", "apiKey", "key", "Key"}

\* The value of a property
Scalar(t, s) == [t |-> t, s |-> s]

UndefinedValue == Scalar("undefined", <<>>)

NullValue == Scalar("null", <<>>)

StringValue(s) == Scalar("string", s)

NumberValue(digits) == Scalar("number", digits)

\* An item of the list
Item(t, s, properties) == [t |-> t, s |-> s, properties |-> properties]

NoProperties == [p \in KeyProperties |-> UndefinedValue]

StringItem(s) == Item("string", s, NoProperties)

NumberItem(digits) == Item("number", digits, NoProperties)

NullItem == Item("null", <<>>, NoProperties)

ArrayItem == Item("array", <<>>, NoProperties)

\* { 'api-key': dashed, apiKey: camel, key: lower, Key: upper }
KeyObject(dashed, camel, lower, upper) ==
  Item("object", <<>>,
       [p \in KeyProperties |->
          CASE p = "api-key" -> dashed
            [] p = "apiKey"  -> camel
            [] p = "key"     -> lower
            [] p = "Key"     -> upper])

\* The input: an array of items, or a value that is no array
ArrayOf(items) == [array |-> TRUE, items |-> items]

NotAnArray == [array |-> FALSE, items |-> <<>>]

\* a ?? b
Coalesce(a, b) == IF a.t \in {"undefined", "null"} THEN b ELSE a

\* String(value ?? '') of a string, a number or a nullish value
StringOf(value) == IF value.t \in {"string", "number"} THEN value.s ELSE <<>>

\* The value the forEach callback of normalizeApiKeyList reads from an item
ApiKeyValue(item) ==
  IF item.t = "string" THEN StringValue(item.s)
  ELSE IF item.t = "object"
    THEN Coalesce(item.properties["api-key"],
           Coalesce(item.properties["apiKey"],
             Coalesce(item.properties["key"], item.properties["Key"])))
  ELSE StringValue(<<>>)

\* The forEach of normalizeApiKeyList over the items still to visit
RECURSIVE normalizeApiKeysIgnoringCase(_, _, _)
normalizeApiKeysIgnoringCase(items, seen, keys) ==
  IF items = <<>> THEN keys
  ELSE LET trimmed == normalizeText(StringOf(ApiKeyValue(Head(items))))
       IN IF trimmed = <<>> \/ toLowerCase(trimmed) \in seen
            THEN normalizeApiKeysIgnoringCase(Tail(items), seen, keys)
            ELSE normalizeApiKeysIgnoringCase(Tail(items),
                   seen \cup {toLowerCase(trimmed)}, Append(keys, trimmed))

RECURSIVE normalizeApiKeysFrom(_, _, _)
normalizeApiKeysFrom(items, seen, keys) ==
  IF items = <<>> THEN keys
  ELSE LET trimmed == normalizeText(StringOf(ApiKeyValue(Head(items))))
       IN IF trimmed = <<>> \/ trimmed \in seen
            THEN normalizeApiKeysFrom(Tail(items), seen, keys)
            ELSE normalizeApiKeysFrom(Tail(items), seen \cup {trimmed},
                                      Append(keys, trimmed))

normalizeApiKeyList(list) ==
  IF ~list.array THEN <<>>
  ELSE normalizeApiKeysFrom(list.items, {}, <<>>)

\* Bound: the length of the explored key lists
MaxKeys == 3

KeyA == <<"a">>

KeyItems ==
  { StringItem(KeyA), StringItem(<<"A">>), StringItem(<<" ", "a", " ">>),
    StringItem(<<>>), StringItem(<<"7">>),
    KeyObject(StringValue(KeyA), UndefinedValue, UndefinedValue, UndefinedValue),
    KeyObject(UndefinedValue, StringValue(<<"A">>), UndefinedValue, UndefinedValue),
    KeyObject(UndefinedValue, UndefinedValue, StringValue(<<"a", " ">>), UndefinedValue),
    KeyObject(UndefinedValue, UndefinedValue, UndefinedValue, StringValue(<<"b">>)),
    KeyObject(NullValue, UndefinedValue, StringValue(<<"b">>), StringValue(KeyA)),
    KeyObject(UndefinedValue, UndefinedValue, NumberValue(<<"7">>), UndefinedValue),
    KeyObject(UndefinedValue, UndefinedValue, UndefinedValue, UndefinedValue),
    NullItem, NumberItem(<<"7">>), ArrayItem }

KeyLists ==
  { ArrayOf(items) : items \in UNION { [1..n -> KeyItems] : n \in 0..MaxKeys } }
    \cup { NotAnArray }

NormalizeApiKeyList ==
  /\ output = <<>>
  /\ output' = <<normalizeApiKeyList(input)>>
  /\ UNCHANGED <<hookVars, pageVars, input>>

InitApiKeys == HookInit("A") /\ PageIdle /\ input \in KeyLists /\ output = <<>>

NextApiKeys == NormalizeApiKeyList

\* normalizeApiKeyList on every list of at most MaxKeys items
SpecApiKeys == InitApiKeys /\ [][NextApiKeys]_vars

\* The key an item stands for: the string itself, or what an object carries
\* under the first of api-key, apiKey, key and Key that is present.
TrimmedKeyOf(item) ==
  LET Carried == { p \in KeyProperties : item.properties[p].t \notin {"undefined", "null"} }
      first   == IF "api-key" \in Carried THEN "api-key"
                 ELSE IF "apiKey" \in Carried THEN "apiKey"
                 ELSE IF "key" \in Carried THEN "key" ELSE "Key"
  IN IF item.t = "string" THEN normalizeText(item.s)
     ELSE IF item.t = "object" /\ Carried # {}
       THEN normalizeText(item.properties[first].s)
     ELSE <<>>

FirstOccurrence(key, list) ==
  CHOOSE i \in 1..Len(list) :
    /\ TrimmedKeyOf(list[i]) = key
    /\ \A j \in 1..(i - 1) : TrimmedKeyOf(list[j]) # key

MaxFiles == 3

\* The values of a disabled / unavailable flag in the backend's JSON
FlagValues ==
  { FlagUndef, FlagBool(TRUE), FlagBool(FALSE), FlagNum(0), FlagNum(2),
    FlagStr(<<"y","e","s">>), FlagStr(<<" ","O","n"," ">>), FlagStr(<<"1">>),
    FlagStr(<<"n","o">>), FlagStr(<<>>) }

ProviderP == <<"p">>

FileOne == <<"f","1">>

CredentialFiles ==
  { AuthFile(FileOne, ProviderP, <<>>, flag, FlagUndef) : flag \in FlagValues }
  \cup { AuthFile(<<"f","2">>, <<"P">>, <<>>, FlagUndef, flag) :
           flag \in { FlagBool(TRUE), FlagStr(<<"n","o">>), FlagStr(<<"Y">>) } }
  \cup { AuthFile(<<"f","3">>, <<>>, <<"q">>, FlagUndef, FlagUndef),
         AuthFile(<<" ","f","1"," ">>, <<" ","P"," ">>, <<"q">>, FlagUndef, FlagUndef),
         AuthFile(FileOne, <<"q">>, ProviderP, FlagStr(<<"t","r","u","e">>), FlagNum(0)),
         AuthFile(<<>>, ProviderP, <<>>, FlagUndef, FlagUndef),
         AuthFile(<<"f","4">>, <<>>, <<>>, FlagUndef, FlagUndef) }

CredentialFileLists == UNION { [1..n -> CredentialFiles] : n \in 0..MaxFiles }

BuildAuthProviderEntries ==
  /\ output = <<>>
  /\ output' = <<buildAuthProviderEntries(input, CodexAliases, <<>>)>>
  /\ UNCHANGED <<hookVars, pageVars, input>>

InitAuthFiles == HookInit("A") /\ PageIdle /\ input \in CredentialFileLists /\ output = <<>>

NextAuthFiles == BuildAuthProviderEntries

\* buildAuthProviderEntries on every list of at most MaxFiles credential files
SpecAuthFiles == InitAuthFiles /\ [][NextAuthFiles]_vars

\* The flag values the claim calls truthy
TrueWords == { <<"t","r","u","e">>, <<"1">>, <<"y","e","s">>, <<"y">>, <<"o","n">> }

IsFlagSet(flag) ==
  \/ flag.k = "bool" /\ flag.b
  \/ flag.k = "num" /\ flag.n # 0
  \/ flag.k = "str" /\ toLowerCase(normalizeText(flag.s)) \in TrueWords

IsFlaggedOff(file) == IsFlagSet(file.disabled) \/ IsFlagSet(file.unavailable)

\* The provider key a file names: its provider, or else its type, lower-cased
ProviderKeyOf(file) ==
  toLowerCase(normalizeText(IF file.provider # <<>> THEN file.provider ELSE file.type))

\* A file that names a provider and has a name
IsNamed(file) == ProviderKeyOf(file) # <<>> /\ normalizeText(file.name) # <<>>

IsKept(file) == IsNamed(file) /\ ~IsFlaggedOff(file)

EntriesWith(entries, key) == { e \in 1..Len(entries) : entries[e].providerKey = key }

FirstKept(files, key) ==
  CHOOSE i \in 1..Len(files) :
    /\ IsKept(files[i]) /\ ProviderKeyOf(files[i]) = key
    /\ \A j \in 1..(i - 1) : ~(IsKept(files[j]) /\ ProviderKeyOf(files[j]) = key)

\* C13: a credential file whose disabled or unavailable flag is true, a
\* non-zero number or one of true, 1, yes, y, on (ignoring case and padding)
\* gives no file name to any entry; a file with a provider and a name whose
\* flags have any other value is listed in the entry of its provider; and a
\* provider whose files are all flagged has no entry.
C13_FlaggedFilesLeftOut ==
  Len(output) = 1 =>
    LET entries == output[1]
    IN /\ \A e \in 1..Len(entries) : \A n \in 1..Len(entries[e].authFileNames) :
            \E i \in 1..Len(input) :
              /\ ~IsFlaggedOff(input[i])
              /\ ProviderKeyOf(input[i]) = entries[e].providerKey
              /\ normalizeText(input[i].name) = entries[e].authFileNames[n]
       /\ \A i \in 1..Len(input) :
            (IsNamed(input[i]) /\ ~IsFlaggedOff(input[i])) =>
              \E e \in EntriesWith(entries, ProviderKeyOf(input[i])) :
                normalizeText(input[i].name) \in Range(entries[e].authFileNames)
       /\ \A i \in 1..Len(input) :
            (\A j \in 1..Len(input) :
               ProviderKeyOf(input[j]) = ProviderKeyOf(input[i]) => IsFlaggedOff(input[j]))
              => EntriesWith(entries, ProviderKeyOf(input[i])) = {}

\* A file disabled by " On " was left out and a file with disabled "no" kept.
C13_Witness ==
  /\ Len(output) = 1
  /\ input = << AuthFile(FileOne, ProviderP, <<>>, FlagStr(<<" ","O","n"," ">>), FlagUndef),
                AuthFile(<<"f","3">>, <<>>, <<"q">>, FlagUndef, FlagUndef),
                AuthFile(FileOne, ProviderP, <<>>, FlagStr(<<"n","o">>), FlagUndef) >>
  /\ Len(output[1]) = 2
  /\ output[1][2].providerKey = ProviderP

\* C14: the entries have distinct provider keys, which are the lower-cased
\* provider keys of the kept files; the entry of a key lists the names of
\* exactly the kept files of that key, each once; and the entries come in the
\* order in which their key was first seen among the kept files.
C14_OneEntryPerProvider ==
  Len(output) = 1 =>
    LET entries == output[1]
        Kept    == { i \in 1..Len(input) : IsKept(input[i]) }
    IN /\ \A a, b \in 1..Len(entries) :
            a < b => /\ entries[a].providerKey # entries[b].providerKey
                     /\ FirstKept(input, entries[a].providerKey)
                          < FirstKept(input, entries[b].providerKey)
       /\ { entries[e].providerKey : e \in 1..Len(entries) }
            = { ProviderKeyOf(input[i]) : i \in Kept }
       /\ \A e \in 1..Len(entries) :
            LET names == entries[e].authFileNames
            IN /\ Range(names) = { normalizeText(input[i].name) :
                                     i \in { k \in Kept :
                                               ProviderKeyOf(input[k]) = entries[e].providerKey } }
               /\ \A j, k \in 1..Len(names) : j < k => names[j] # names[k]

\* Files of provider p spelt in two cases, one of them twice, around a file of
\* another provider, gave two entries.
C14_Witness ==
  /\ Len(output) = 1
  /\ input = << AuthFile(<<"f","2">>, <<"P">>, <<>>, FlagUndef, FlagStr(<<"n","o">>)),
                AuthFile(<<"f","3">>, <<>>, <<"q">>, FlagUndef, FlagUndef),
                AuthFile(FileOne, ProviderP, <<>>, FlagUndef, FlagUndef) >>
  /\ Len(output[1]) = 2
  /\ output[1][1].authFileNames = << <<"f","2">>, FileOne >>

\* ------------------------------------------------------------------------
\* The two model converters on lists of raw model items
\* ------------------------------------------------------------------------

\* Bound: the length of the explored lists of raw model items
MaxItems == 2

ItemNames == { <<"a">>, <<"A">>, <<" ","a">>, <<"b">>, <<>> }

ItemAliases == { <<>>, <<"a">>, <<"B">>, <<"b"," ">> }

\* A raw item: name and alias of a configured model, id and display_name of
\* a model the backend lists
RawItems == { [name |-> name, alias |-> alias] : name \in ItemNames, alias \in ItemAliases }

RawItemLists == UNION { [1..n -> RawItems] : n \in 0..MaxItems }

Converted(fn, models) == [fn |-> fn, models |-> models]

\* convertConfiguredModels(input)
ConvertConfiguredModels ==
  /\ output = <<>>
  /\ output' = <<Converted("configured", convertConfiguredModels(input))>>
  /\ UNCHANGED <<hookVars, pageVars, input>>

\* normalizeAuthApiModels of the same items, read as id and display_name
NormalizeAuthApiModels ==
  /\ output = <<>>
  /\ output' = <<Converted("auth",
                           normalizeAuthApiModels(
                             [i \in 1..Len(input) |->
                                [id |-> input[i].name, display_name |-> input[i].alias]]))>>
  /\ UNCHANGED <<hookVars, pageVars, input>>

InitConverters == HookInit("A") /\ PageIdle /\ input \in RawItemLists /\ output = <<>>

NextConverters == ConvertConfiguredModels \/ NormalizeAuthApiModels

\* Both converters on every list of at most MaxItems raw items
SpecConverters == InitConverters /\ [][NextConverters]_vars

\* The item has an alias that differs from its id ignoring case
HasOwnAlias(item) ==
  /\ normalizeText(item.alias) # <<>>
  /\ toLowerCase(normalizeText(item.alias)) # toLowerCase(normalizeText(item.name))

\* The model the claim gives for an item under each converter
ClaimedModel(fn, item) ==
  IF ~HasOwnAlias(item)
    THEN [name |-> normalizeText(item.name), alias |-> <<>>]
  ELSE IF fn = "configured"
    THEN [name |-> normalizeText(item.alias), alias |-> normalizeText(item.name)]
  ELSE [name |-> normalizeText(item.name), alias |-> normalizeText(item.alias)]

\* The item has an id, and no earlier item gives a model of the same name
\* ignoring case (which dedupeModels would keep instead).
GivesModel(fn, items, i) ==
  /\ normalizeText(items[i].name) # <<>>
  /\ \A j \in 1..(i - 1) :
       normalizeText(items[j].name) # <<>> =>
         toLowerCase(ClaimedModel(fn, items[j]).name)
           # toLowerCase(ClaimedModel(fn, items[i]).name)

\* C15: for an item whose alias differs from its id ignoring case,
\* convertConfiguredModels gives the model named by the alias with the raw
\* name as alias, and normalizeAuthApiModels the model named by the id with
\* the display_name as alias; for an item whose alias is empty or equals the
\* id ignoring case both give the model named by the id, without alias; and
\* neither gives any other model.
C15_OppositeOrientations ==
  Len(output) = 1 =>
    LET fn     == output[1].fn
        models == output[1].models
    IN /\ \A i \in 1..Len(input) :
            GivesModel(fn, input, i) => ClaimedModel(fn, input[i]) \in Range(models)
       /\ \A m \in 1..Len(models) :
            \E i \in 1..Len(input) :
              GivesModel(fn, input, i) /\ models[m] = ClaimedModel(fn, input[i])

\* normalizeAuthApiModels returned a model with its display_name as alias
\* next to one without alias.
C15_Witness ==
  /\ Len(output) = 1
  /\ output[1].fn = "auth"
  /\ input = << [name |-> <<"a">>, alias |-> <<"B">>], [name |-> <<"b">>, alias |-> <<"b"," ">>] >>
  /\ output[1].models = << [name |-> <<"a">>, alias |-> <<"B">>], [name |-> <<"b">>, alias |-> <<>>] >>

\* ------------------------------------------------------------------------
\* The model lists of the records
\* ------------------------------------------------------------------------

\* Backends whose alias and exclusion lists act on the listed models
ModelBackends == {"F", "M", "N"}

InitModels == (\E served \in ModelBackends : HookMounted(served)) /\ CallsIdle /\ PageIdle

NextModels ==
  \/ \E l \in 1..Len(loads) : FetchConfigResolve(l)
  \/ \E l \in 1..Len(loads) : FetchConfigReject(l)
  \/ \E l \in 1..Len(loads) : \E a, x \in BOOLEAN : ListsResolve(l, TRUE, a, x)
  \/ \E i \in 1..Len(providerEntries) : ReloadProviderModels(i, MaxReloads)
  \/ \E call \in calls : \E r \in AllDefinitionResponses : ResolveDefinitions(call, r)
  \/ \E call \in calls : \E i \in 1..Len(call.files) : \E r \in AllFileResponses :
       SettleFile(call, i, r)

\* Loads and reloads of entries whose models are renamed, excluded and
\* listed more than once
SpecModels == InitModels /\ [][NextModels]_vars

\* C16: the model list of every record holds only models whose name is
\* non-empty after trimming, and no two of its models have names that are
\* equal ignoring case.
C16_ModelNamesDistinct ==
  \A id \in DOMAIN modelsByProvider :
    LET models == modelsByProvider[id].models
    IN /\ \A i \in 1..Len(models) : normalizeText(models[i].name) # <<>>
       /\ \A i, j \in 1..Len(models) :
            i < j => toLowerCase(normalizeText(models[i].name))
                       # toLowerCase(normalizeText(models[j].name))

\* The record of provider codex holds the one model left of two listed
\* models that met under an alias.
C16_Witness ==
  /\ backend = "M"
  /\ \E id \in DOMAIN modelsByProvider :
       /\ modelsByProvider[id].status = "success"
       /\ modelsByProvider[id].models = <<[name |-> <<"B">>, alias |-> <<"a">>]>>

\* ------------------------------------------------------------------------
\* The statuses a record goes through
\* ------------------------------------------------------------------------

InitStatus == HookMounted("F") /\ CallsIdle /\ PageIdle

NextStatus ==
  \/ \E conn \in BOOLEAN : LoadPageData(conn, MaxLoads + 1)
  \/ \E l \in 1..Len(loads) : FetchConfigResolve(l)
  \/ \E l \in 1..Len(loads) : FetchConfigReject(l)
  \/ \E l \in 1..Len(loads) : ListsResolve(l, TRUE, TRUE, TRUE)
  \/ \E i \in 1..Len(providerEntries) : ReloadProviderModels(i, MaxReloads)
  \/ \E call \in calls : \E r \in DefinitionResponses : ResolveDefinitions(call, r)
  \/ \E call \in calls : \E i \in 1..Len(call.files) : \E r \in FileResponses :
       SettleFile(call, i, r)

\* The load made on mount, overtaken by a later load (with or without
\* connection) and by single reloads while its listing calls are in flight
SpecStatus == InitStatus /\ [][NextStatus]_vars

StatusOf(map, id) == IF id \in DOMAIN map THEN map[id].status ELSE "absent"

\* The step leaves a new success or error record for the id.
Settles(id) ==
  /\ id \in DOMAIN modelsByProvider'
  /\ modelsByProvider'[id].status \in {"success", "error"}
  /\ id \in DOMAIN modelsByProvider => modelsByProvider'[id] # modelsByProvider[id]

\* A refresh of the id starts in the step (and writes its loading record
\* before anything else).
StartsRefresh(id) == TokenOf(providerFetchToken', id) # TokenOf(providerFetchToken, id)

\* C17: a record becomes success or error only from a loading record of the
\* same id: either the record was loading before the step, or the refresh
\* that wrote it started in the step and wrote its loading record first.
C17_SettledOnlyFromLoading ==
  [][\A id \in DOMAIN modelsByProvider' :
       Settles(id) => (StatusOf(modelsByProvider, id) = "loading" \/ StartsRefresh(id))]_vars

\* A listing call answered after the page lost its connection left a success
\* record in the map that the disconnection had emptied.
C17_Witness ==
  /\ ~connected
  /\ providerEntries = <<>>
  /\ calls = {}
  /\ \E id \in DOMAIN modelsByProvider : modelsByProvider[id].status = "success"

\* ------------------------------------------------------------------------
\* Every backend call is answered
\* ------------------------------------------------------------------------

\* A backend call in flight resolves or rejects.
Respond ==
  \/ \E l \in 1..Len(loads) : FetchConfigResolve(l)
  \/ \E l \in 1..Len(loads) : FetchConfigReject(l)
  \/ \E l \in 1..Len(loads) : ListsResolve(l, TRUE, TRUE, TRUE)
  \/ \E call \in calls : \E r \in DefinitionResponses : ResolveDefinitions(call, r)
  \/ \E call \in calls : \E i \in 1..Len(call.files) : \E r \in FileResponses :
       SettleFile(call, i, r)

\* fetchConfig settles.
ConfigRespond ==
  \E l \in 1..Len(loads) : FetchConfigResolve(l) \/ FetchConfigReject(l)

\* Some backend call is in flight: Respond is enabled exactly in these states.
AwaitsResponse ==
  \/ \E l \in 1..Len(loads) : loads[l].pc \in {"config", "lists"}
  \/ calls # {}

\* The interleavings of SpecStatus in which no backend call stays
\* unanswered: weak fairness of ConfigRespond and of Respond, the latter with
\* its enabling condition written out.  Loads and reloads stop being started
\* once MaxLoads + 1 loads and MaxReloads reloads were made.
SpecAnswered ==
  /\ InitStatus
  /\ [][NextStatus]_vars
  /\ WF_vars(ConfigRespond)
  /\ ([]<>~AwaitsResponse) \/ ([]<><<Respond>>_vars)

\* The ids of the entries of the explored backend
AnsweredIds ==
  { AuthPrefix \o groupAuthFiles(BackendF.files, <<>>)[i].key :
      i \in 1..Len(groupAuthFiles(BackendF.files, <<>>)) }

\* C18: when every backend call is answered and refreshes stop being started,
\* a record that is loading is followed by a success or error record of the
\* same id.
C18_LoadingEnds ==
  \A id \in AnsweredIds :
    (StatusOf(modelsByProvider, id) = "loading")
      ~> (StatusOf(modelsByProvider, id) \in {"success", "error"})

\* A refresh overtaken by a reload ended without writing, after the reload
\* had given the record its models.
C18_Witness ==
  /\ lastDone.k = "ended"
  /\ lastDone.stale
  /\ StatusOf(modelsByProvider, lastDone.id) = "success"
  /\ calls = {}

\* ------------------------------------------------------------------------
\* refreshAllProviderModels replaces the map
\* ------------------------------------------------------------------------

ReplaceDefinitionResponses == { Fulfilled(RawA) }

\* Two page loads over six entries, the second one possibly after the backend
\* lost all but one credential file, with the list of credential files
\* loading or failing; every definitions call lists its models.
InitReplace == HookMounted("G") /\ CallsIdle /\ PageIdle

NextReplace ==
  \/ LoadPageData(TRUE, MaxLoads + 1)
  \/ \E l \in 1..Len(loads) : FetchConfigResolve(l)
  \/ \E l \in 1..Len(loads) : \E f \in BOOLEAN : ListsResolve(l, f, TRUE, TRUE)
  \/ \E call \in calls : \E r \in ReplaceDefinitionResponses : ResolveDefinitions(call, r)
  \/ BackendChange("G", "H")

SpecReplace == InitReplace /\ [][NextReplace]_vars

\* refreshAllProviderModels(providerEntries') runs in the step: the lists of
\* a load resolve.
RefreshesAll == \E l \in 1..Len(loads) : loads[l].pc = "lists" /\ loads'[l].pc # "lists"

GivenIds == { providerEntries'[i].id : i \in 1..Len(providerEntries') }

\* The model fetches that start in the step
StartedFetches == calls' \ calls

\* The entry of the id is refreshed without a backend call, in the turn that
\* starts its batch.
RefreshedAtOnce(id) ==
  \E i \in 1..Len(providerEntries') :
    /\ providerEntries'[i].id = id
    /\ providerEntries'[i].sourceKind = "configured-api"

\* C19: when refreshAllProviderModels runs on a non-empty list, the map it
\* leaves has exactly the ids of the list, every record is the loading record
\* with the models the id had before (but for the entries refreshed without a
\* backend call in the same turn), the fetches it starts are of records so
\* marked; on an empty list the map becomes empty and no fetch starts.
C19_MapReplacedByLoading ==
  [][RefreshesAll =>
       IF providerEntries' = <<>>
         THEN modelsByProvider' = EmptyMap /\ StartedFetches = {}
         ELSE /\ DOMAIN modelsByProvider' = GivenIds
              /\ \A id \in GivenIds :
                   \/ modelsByProvider'[id] = LoadingState(modelsByProvider, id)
                   \/ RefreshedAtOnce(id)
              /\ \A call \in StartedFetches :
                   /\ call.entry.id \in GivenIds
                   /\ modelsByProvider'[call.entry.id]
                        = LoadingState(modelsByProvider, call.entry.id)]_vars

\* The second load found one credential file left: its record is loading
\* with the models listed before, and the ids refreshed before are gone.
C19_Witness ==
  /\ Len(loads) = 2
  /\ loads[2].pc = "refresh"
  /\ \E id \in DOMAIN modelsByProvider :
       /\ modelsByProvider[id].status = "loading"
       /\ modelsByProvider[id].models # <<>>
  /\ \E id \in DOMAIN providerFetchToken : id \notin DOMAIN modelsByProvider

\* ------------------------------------------------------------------------
\* The per-file listing calls follow the definitions call
\* ------------------------------------------------------------------------

\* A listing whose only item has a blank id
RawBlank == <<RawModel(<<" ">>, <<"c">>)>>

FallbackDefinitionResponses ==
  { Fulfilled(RawEmpty), Fulfilled(RawBlank), Fulfilled(RawA), Rejected(DefinitionError) }

FallbackFileResponses == { Fulfilled(RawB), Rejected(FileError) }

\* The load made on mount over one auth-proxy entry with two credential
\* files and a reload of the entry, the definitions call also listing nothing
\* but a blank id.
NextFallback ==
  \/ \E l \in 1..Len(loads) : FetchConfigResolve(l)
  \/ \E l \in 1..Len(loads) : FetchConfigReject(l)
  \/ \E l \in 1..Len(loads) : \E a, x \in BOOLEAN : ListsResolve(l, TRUE, a, x)
  \/ \E i \in 1..Len(providerEntries) : ReloadProviderModels(i, MaxReloads)
  \/ \E call \in calls : \E r \in FallbackDefinitionResponses : ResolveDefinitions(call, r)
  \/ \E call \in calls : \E i \in 1..Len(call.files) : \E r \in FallbackFileResponses :
       SettleFile(call, i, r)

SpecFallback == InitFetch /\ [][NextFallback]_vars

SameRefresh(c, d) == c.entry.id = d.entry.id /\ c.token = d.token

\* The per-file calls of the refresh are in flight or answered.
FilesAsked(pending, call) == \E c \in pending : SameRefresh(c, call) /\ c.pc = "files"

\* The definitions call failed, or listed no item with an id.
FailedOrListedNone(r) ==
  \/ r.k = "rejected"
  \/ \A i \in 1..Len(r.value) : normalizeText(r.value[i].id) = <<>>

\* C20: the per-file calls of a refresh appear only in a step in which its
\* definitions call settles, rejected or listing no item with an id; when the
\* definitions call lists a model, no per-file call is made and the refresh
\* ends in the same step with what alias lookup and exclusion leave of the
\* normalized definitions models.
C20_FilesOnlyAfterDefinitions ==
  [][/\ \A c \in calls' :
          (c.pc = "files" /\ ~FilesAsked(calls, c)) =>
             \E d \in calls : \E r \in FallbackDefinitionResponses :
               /\ SameRefresh(d, c)
               /\ d.pc = "defs"
               /\ ResolveDefinitions(d, r)
               /\ FailedOrListedNone(r)
     /\ \A d \in calls : \A r \in FallbackDefinitionResponses :
          (ResolveDefinitions(d, r) /\ ~FailedOrListedNone(r)) =>
             /\ ~FilesAsked(calls', d)
             /\ lastDone'.id = d.entry.id
             /\ lastDone'.token = d.token
             /\ \A i \in 1..Len(lastDone'.files) : lastDone'.files[i] = Pending
             /\ lastDone'.outcome =
                  Returned(FinishModels(d.entry, normalizeAuthApiModels(r.value)))]_vars

\* A refresh ended on its definitions models with its files never asked,
\* and the files of a later refresh of the entry are being asked after a
\* definitions call that was fulfilled.
C20_Witness ==
  /\ lastDone.k = "ended"
  /\ lastDone.outcome.k = "ok"
  /\ lastDone.outcome.models # <<>>
  /\ lastDone.files # <<>>
  /\ \A i \in 1..Len(lastDone.files) : lastDone.files[i] = Pending
  /\ \E c \in calls :
       /\ c.entry.id = lastDone.id
       /\ c.pc = "files"
       /\ c.definitionError = NoError
       /\ \E i \in 1..Len(c.files) : c.files[i] # Pending

\* ------------------------------------------------------------------------
\* Alias lookup, then exclusion
\* ------------------------------------------------------------------------

\* Bound: the length of the explored listings
MaxListed == 2

ListedIds == { <<"a">>, <<"A">>, <<"m">>, <<"b">>, <<" ">> }

ListedDisplayNames == { <<>>, <<"m">>, <<"a">> }

ListedItems == { RawModel(id, name) : id \in ListedIds, name \in ListedDisplayNames }

Listings == UNION { [1..n -> ListedItems] : n \in 0..MaxListed }

\* oauth-model-alias lists of a provider: [name, alias] entries
AliasLists ==
  { <<>>,
    <<[name |-> <<"a">>, alias |-> <<"m">>]>>,
    <<[name |-> <<"A">>, alias |-> <<"m">>], [name |-> <<"b">>, alias |-> <<"M">>]>>,
    <<[name |-> <<"m">>, alias |-> <<"a">>]>>,
    <<[name |-> <<"a">>, alias |-> <<"A"," ">>]>> }

\* oauth-excluded-models lists of a provider
PatternLists ==
  { <<>>, <<<<"a">>>>, <<<<"M">>>>, <<<<"m","*">>>>, <<<<"*","b">>, <<" ">>>> }

FinishInputs ==
  { [listed |-> listed, aliases |-> aliases, patterns |-> patterns] :
      listed \in Listings, aliases \in AliasLists, patterns \in PatternLists }

\* The auth-proxy entry of a provider with the given lists
FinishEntry(aliases, patterns) ==
  AuthEntry(<<"p">>, <<"p">>, 0, <<<<"f">>>>,
            buildAliasLookup(aliases), normalizeExcludedPatterns(patterns))

\* fetchAuthProxyModels from the fulfilled definitions call on
FinishListedModels ==
  /\ output = <<>>
  /\ output' = <<FinishModels(FinishEntry(input.aliases, input.patterns),
                              normalizeAuthApiModels(input.listed))>>
  /\ UNCHANGED <<hookVars, pageVars, input>>

InitFinish == HookInit("A") /\ PageIdle /\ input \in FinishInputs /\ output = <<>>

NextFinish == FinishListedModels

\* The tail of fetchAuthProxyModels on every listing of at most MaxListed items
SpecFinish == InitFinish /\ [][NextFinish]_vars

\* The text matches one of the patterns of the list.
MatchesExcluded(text, patterns) ==
  \E i \in 1..Len(patterns) :
    /\ normalizeText(patterns[i]) # <<>>
    /\ matchExcludePattern(text, normalizeText(patterns[i]))

\* The name the alias list gives the id: the alias of the last entry of that
\* name, when it is not blank and differs from the id.
RenamedTo(id, aliases) ==
  LET Hits == { i \in 1..Len(aliases) :
                  /\ toLowerCase(normalizeText(aliases[i].name)) = toLowerCase(id)
                  /\ normalizeText(aliases[i].alias) # <<>> }
      last == CHOOSE i \in Hits : \A j \in Hits : j <= i
  IN IF Hits = {} THEN <<>>
     ELSE IF toLowerCase(normalizeText(aliases[last].alias)) = toLowerCase(id) THEN <<>>
     ELSE normalizeText(aliases[last].alias)

\* No model of the list stands for the listed id: none is named by it, and
\* none is named by what the alias list made of it, with the id as its alias.
AbsentFrom(id, mapped, models) ==
  \A i \in 1..Len(models) :
    /\ toLowerCase(models[i].name) # toLowerCase(id)
    /\ ~ /\ mapped # <<>>
         /\ toLowerCase(models[i].name) = toLowerCase(mapped)
         /\ toLowerCase(models[i].alias) = toLowerCase(id)

\* C21: a listed model whose id matches an excluded pattern is absent from
\* the final list, renamed by the alias lookup or not, and so is a listed
\* model whose mapped alias matches an excluded pattern.
C21_ExcludedAfterAlias ==
  Len(output) = 1 =>
    \A i \in 1..Len(input.listed) :
      LET id     == normalizeText(input.listed[i].id)
          mapped == RenamedTo(id, input.aliases)
      IN id # <<>> =>
           /\ MatchesExcluded(id, input.patterns) =>
                AbsentFrom(id, mapped, output[1])
           /\ (mapped # <<>> /\ MatchesExcluded(mapped, input.patterns)) =>
                AbsentFrom(id, mapped, output[1])

\* A listed model was renamed and its new name is excluded, while another
\* listed model is kept.
C21_Witness ==
  /\ Len(output) = 1
  /\ Len(output[1]) = 1
  /\ \E i \in 1..Len(input.listed) :
       LET id     == normalizeText(input.listed[i].id)
           mapped == RenamedTo(id, input.aliases)
       IN /\ id # <<>>
          /\ mapped # <<>>
          /\ ~MatchesExcluded(id, input.patterns)
          /\ MatchesExcluded(mapped, input.patterns)

\* ------------------------------------------------------------------------
\* A refresh touches one record
\* ------------------------------------------------------------------------

\* A load starts in the step (and resets the hook when not connected).
StartsLoad == Len(loads') > Len(loads)

\* A refresh of the id starts in the step.
RefreshStarts(id) == TokenOf(providerFetchToken', id) # TokenOf(providerFetchToken, id)

\* A refresh of the id gets its models or its exception in the step.
RefreshEnds(id) == \E c \in Ending : c.entry.id = id

\* C22: outside the steps in which a load starts or replaces the map, a
\* record changes only in a step in which a refresh of its id starts or
\* ends; the steps of the calls leave the list of entries alone, and a call
\* in flight keeps its entry.
C22_RefreshTouchesOneRecord ==
  [][(~StartsLoad /\ ~RefreshesAll) =>
       /\ \A id \in DOMAIN modelsByProvider \cup DOMAIN modelsByProvider' :
            RecordOf(modelsByProvider', id) # RecordOf(modelsByProvider, id) =>
              RefreshStarts(id) \/ RefreshEnds(id)
       /\ providerEntries' = providerEntries
       /\ \A c \in calls : \A d \in calls' : SameRefresh(c, d) => d.entry = c.entry]_vars

\* The refresh of one entry ended while another record held the models of
\* an earlier refresh and a third refresh was in flight.
C22_Witness ==
  /\ lastDone.k = "ended"
  /\ ~lastDone.stale
  /\ \E id \in DOMAIN modelsByProvider :
       /\ id # lastDone.id
       /\ modelsByProvider[id].status = "success"
       /\ modelsByProvider[id].models # <<>>
  /\ \E c \in calls : c.entry.id # lastDone.id

\* ------------------------------------------------------------------------
\* Records and current entries
\* ------------------------------------------------------------------------

EntryIds == { providerEntries[i].id : i \in 1..Len(providerEntries) }

\* C24: every id that has a model-state record is the id of a current
\* provider entry.
C24_RecordsOfCurrentEntries == DOMAIN modelsByProvider \subseteq EntryIds

\* A refresh that was in flight when a disconnected load emptied the list
\* and the map ended as the latest of its id and left a record of that id.
C24_Witness ==
  /\ lastDone.k = "ended"
  /\ ~lastDone.stale
  /\ lastDone.id \in DOMAIN modelsByProvider
  /\ lastDone.id \notin EntryIds
  /\ ~connected

\* ------------------------------------------------------------------------
\* Overlapping loads
\* ------------------------------------------------------------------------

\* The load made on mount over six entries has built its entries when the
\* backend gets an alias for the fifth provider; a second load starts after
\* that, so that the entries of the two loads differ.  Every definitions call
\* lists its models.
NextOverlap ==
  \/ backend = "I" /\ LoadPageData(TRUE, MaxLoads + 1)
  \/ \E l \in 1..Len(loads) : FetchConfigResolve(l)
  \/ \E l \in 1..Len(loads) : ListsResolve(l, TRUE, TRUE, TRUE)
  \/ \E call \in calls : \E r \in ReplaceDefinitionResponses : ResolveDefinitions(call, r)
  \/ Len(loads) = 1 /\ loads[1].pc = "refresh" /\ BackendChange("G", "I")

SpecOverlap == InitReplace /\ [][NextOverlap]_vars

\* Two loads overlapped and both have completed.
OverlapCompleted ==
  /\ Len(loads) = 2
  /\ \A l \in 1..2 : loads[l].pc = "done"
  /\ calls = {}

\* What a refresh of the entry yields when the definitions call lists RawA
ModelsFrom(entry) ==
  IF entry.sourceKind = "configured-api"
    THEN dedupeModels(entry.configuredModels)
    ELSE FinishModels(entry, normalizeAuthApiModels(RawA))

\* The entries the later-started load built
LaterEntries ==
  buildAuthProviderEntries(BackendI.files, BackendI.aliasMap, BackendI.excludedMap)
    \o buildConfiguredEntries(BackendI.config)

\* C25: once two overlapping loads have completed, the record of every
\* provider holds the models computed from the entry that the later-started
\* load built.
C25_LaterLoadDecides ==
  OverlapCompleted =>
    \A i \in 1..Len(LaterEntries) :
      /\ LaterEntries[i].id \in DOMAIN modelsByProvider
      /\ modelsByProvider[LaterEntries[i].id] = SuccessState(ModelsFrom(LaterEntries[i]))

\* Both loads have completed and the record of the fifth provider holds the
\* listed model without the alias that the entry of the later load gives it.
C25_Witness ==
  /\ OverlapCompleted
  /\ providerEntries = LaterEntries
  /\ \E i \in 1..Len(LaterEntries) :
       /\ LaterEntries[i].aliasLookup # <<>>
       /\ modelsByProvider[LaterEntries[i].id].status = "success"
       /\ modelsByProvider[LaterEntries[i].id].models
            = FinishModels([LaterEntries[i] EXCEPT !.aliasLookup = <<>>],
                           normalizeAuthApiModels(RawA))

\* ------------------------------------------------------------------------
\* pageLoading
\* ------------------------------------------------------------------------

\* The loadPageData calls that passed the connection check and have not
\* reached the end of their finally block
RunningLoads == { l \in 1..Len(loads) : loads[l].pc # "done" }

\* C28: pageLoading is true while a load is running, and false when none is.
C28_LoadingWhileLoadsRun == pageLoading <=> RunningLoads # {}

\* The earlier of two overlapping loads has finished and switched
\* pageLoading off while the later one awaits its refreshes.
C28_Witness ==
  /\ Len(loads) = 2
  /\ loads[1].pc = "done"
  /\ loads[2].pc = "refresh"
  /\ calls # {}
  /\ ~pageLoading

\* ------------------------------------------------------------------------
\* What a refresh writes
\* ------------------------------------------------------------------------

MaxGroupFiles == 2

\* Bound: the number of configured items of each kind
MaxConfigured == 2

\* Credential files whose provider is a kind of configured key, the same in
\* other letter case, the text of a configured id, and another provider
IdFiles ==
  { AuthFile(<<"f","1">>, CodexKind, <<>>, FlagUndef, FlagUndef),
    AuthFile(<<"f","2">>, <<" ","C","o","d","e","x">>, <<>>, FlagUndef, FlagUndef),
    AuthFile(<<"f","3">>, ConfiguredPrefix \o CodexKind \o <<":","0">>, <<>>,
             FlagUndef, FlagUndef),
    AuthFile(<<"f","4">>, <<>>, <<"q">>, FlagUndef, FlagUndef) }

IdFileLists == UNION { [1..n -> IdFiles] : n \in 0..MaxGroupFiles }

\* A configuration with the given number of items of each kind; the openai
\* providers are named after an auth-proxy id.
CountedConfig(nOpenai, nCodex, nClaude, nGemini, nVertex) ==
  [openaiCompatibility |-> [i \in 1..nOpenai |->
                              [name |-> AuthPrefix \o CodexKind, models |-> <<>>]],
   codexApiKeys  |-> [i \in 1..nCodex  |-> KeyConfig(<<>>, <<>>, <<>>)],
   claudeApiKeys |-> [i \in 1..nClaude |-> KeyConfig(CodexKind, <<>>, <<>>)],
   geminiApiKeys |-> [i \in 1..nGemini |-> KeyConfig(<<>>, <<>>, <<>>)],
   vertexApiKeys |-> [i \in 1..nVertex |-> KeyConfig(<<>>, <<>>, <<>>)]]

IdConfigs ==
  { CountedConfig(a, b, c, d, e) : a, b, e \in 0..MaxConfigured, c, d \in 0..1 }

\* const entries = [...authEntries, ...configuredEntries]
BuildEntries ==
  /\ output = <<>>
  /\ output' = <<buildAuthProviderEntries(input.files, <<>>, <<>>)
                   \o buildConfiguredEntries(input.config)>>
  /\ UNCHANGED <<hookVars, pageVars, input>>

InitEntries ==
  /\ HookInit("A")
  /\ PageIdle
  /\ input \in [files : IdFileLists, config : IdConfigs]
  /\ output = <<>>

NextEntries == BuildEntries

\* The entries of every list of at most MaxGroupFiles credential files and
\* every configuration with at most MaxConfigured openai, codex and vertex
\* items and at most one claude and one gemini item
SpecEntries == InitEntries /\ [][NextEntries]_vars

IsAuthId(id) == Len(id) >= Len(AuthPrefix) /\ SubSeq(id, 1, Len(AuthPrefix)) = AuthPrefix

IsConfiguredId(id) ==
  Len(id) >= Len(ConfiguredPrefix) /\ SubSeq(id, 1, Len(ConfiguredPrefix)) = ConfiguredPrefix

\* C30: the ids of the entries a load builds are pairwise distinct; the id of
\* an auth-proxy entry is auth:<providerKey>, the id of a configured entry
\* starts with configured:, and no id is of both forms.
C30_EntryIdsDistinct ==
  output # <<>> =>
    LET entries == output[1]
    IN /\ \A i, j \in 1..Len(entries) : i # j => entries[i].id # entries[j].id
       /\ \A i \in 1..Len(entries) :
            /\ entries[i].sourceKind = "auth-proxy" =>
                 /\ entries[i].id = AuthPrefix \o entries[i].providerKey
                 /\ ~IsConfiguredId(entries[i].id)
            /\ entries[i].sourceKind = "configured-api" =>
                 /\ IsConfiguredId(entries[i].id)
                 /\ ~IsAuthId(entries[i].id)

\* Two credential files, of provider codex and of a provider called like the
\* id of the first configured codex key, together with two configured codex
\* keys and an openai provider.
C30_Witness ==
  /\ output # <<>>
  /\ Len(input.config.codexApiKeys) = 2
  /\ Len(input.config.openaiCompatibility) = 1
  /\ { output[1][i].id : i \in 1..Len(output[1]) } =
       { AuthPrefix \o CodexKind,
         AuthPrefix \o ConfiguredPrefix \o CodexKind \o <<":","0">>,
         ConfiguredPrefix \o OpenaiKind \o <<":","0">>,
         ConfiguredPrefix \o CodexKind \o <<":","0">>,
         ConfiguredPrefix \o CodexKind \o <<":","1">> }
  /\ Len(output[1]) = 5

\* ------------------------------------------------------------------------
\* Saving into the file that is open
\* ------------------------------------------------------------------------

\* Bound: the readSettingsFromHandle invocations awaiting the file at a time
MaxReads == 1

\* Bound: the handleSave invocations awaiting the write at a time
MaxSaves == 1

MainSlot == {ANTHROPIC_MODEL}

\* The first file is a settings file; the second may be anything.
OpenFiles ==
  { [handle \in Handles |-> IF handle = "h1" THEN SettingsText ELSE text] :
      text \in OtherTexts }

InitOpen ==
  /\ HookMounted("S")
  /\ CallsIdle
  /\ \E files \in OpenFiles : PageInit(TRUE, files, NoHandle)

\* Files are opened, reloaded, edited and saved while the hook loads the
\* providers; a save is started only while no file is being read.
NextOpen ==
  \/ \E l \in 1..Len(loads) : FetchConfigResolve(l)
  \/ \E l \in 1..Len(loads) : ListsResolve(l, TRUE, TRUE, TRUE)
  \/ \E handle \in Handles : HandleOpenFile(handle, MaxReads)
  \/ HandleReload(MaxReads)
  \/ \E i \in 1..Len(reads) : \E granted \in BOOLEAN : ReadSettled(i, granted)
  \/ \E slot \in MainSlot : HandleModelSelect(slot, <<"n">>, <<>>)
  \/ reads = <<>> /\ HandleSave(MaxSaves)
  \/ \E i \in 1..Len(saves) : \E granted \in BOOLEAN : SaveSettled(i, granted)

SpecOpen == InitOpen /\ [][NextOpen]_vars

\* The settings a pending save merges were read from the file: the file holds
\* an object and the settings are that object.
ReadFrom(base, text) ==
  /\ JSONparse(text).ok
  /\ IsPlainObject(JSONparse(text).v)
  /\ base = JSONparse(text).v

\* C23: a file is written only by a save whose settings were read from that
\* file (or written to it by an earlier save), never with settings read from
\* another file.
C23_SaveWritesOwnSettings ==
  [][\A handle \in Handles :
       disk'[handle] # disk[handle] =>
         \E i \in 1..Len(saves) :
           /\ saves[i].handle = handle
           /\ ReadFrom(saves[i].view.settings, disk[handle])]_vars

\* Reading the second file has failed, and the file now holds the settings
\* of the first with the edited model.
C23_Witness ==
  /\ fileHandle = "h2"
  /\ loadError \in {UnexpectedToken, InvalidJsonObject}
  /\ pageStatus = "loaded"
  /\ disk["h1"] = SettingsText
  /\ JSONparse(disk["h2"]).ok
  /\ GetMember(JSONparse(disk["h2"]).v, <<"a">>) = GetMember(JSONparse(SettingsText).v, <<"a">>)
  /\ GetMember(GetMember(JSONparse(disk["h2"]).v, EnvKey), ANTHROPIC_MODEL) = JString(<<"n">>)

\* ------------------------------------------------------------------------
\* A loaded file that nobody has edited
\* ------------------------------------------------------------------------

\* A settings file whose main slot names a model of the claude key with a
\* thinking level.
ClaudeText ==
  <<LBrace,
      Str(EnvKey), Colon, LBrace,
        Str(ANTHROPIC_MODEL), Colon, Str(<<"n","(","h","i","g","h",")">>),
      RBrace,
    RBrace>>

LoadFiles == [handle \in Handles |-> IF handle = "h1" THEN SettingsText ELSE ClaudeText]

InitLoad ==
  /\ HookMounted("S")
  /\ CallsIdle
  /\ \E saved \in {NoHandle, "h2"} : PageInit(TRUE, LoadFiles, saved)

\* Files are opened and reloaded, and nothing is edited, while the hook loads
\* the providers, loses the connection and gets it back.
NextLoad ==
  \/ \E l \in 1..Len(loads) : FetchConfigResolve(l)
  \/ \E l \in 1..Len(loads) : ListsResolve(l, TRUE, TRUE, TRUE)
  \/ \E conn \in BOOLEAN : LoadPageData(conn, MaxLoads + 1)
  \/ \E granted \in BOOLEAN : RestoreSavedHandle(granted)
  \/ \E handle \in Handles : HandleOpenFile(handle, MaxReads)
  \/ HandleReload(MaxReads)
  \/ \E i \in 1..Len(reads) : \E granted \in BOOLEAN : ReadSettled(i, granted)

SpecLoad == InitLoad /\ [][NextLoad]_vars

\* settings.env?.[slot]
SlotValue(object, slot) == GetMember(GetMember(object, EnvKey), slot)

\* C26: while no slot has been edited the page is not dirty and the save
\* preview has the loaded value in each of the four slots, whatever the hook
\* publishes.
C26_LoadedNotDirty ==
  settings # JNull =>
    /\ ~isDirty(View)
    /\ \A slot \in Slots :
         SlotValue(buildMergedSettings(View, settings), slot) = SlotValue(settings, slot)

\* The file naming a claude model with a thinking level is loaded, the claude
\* provider has been selected for the slot, and the level is gone.
C26_Witness ==
  /\ pageStatus = "loaded"
  /\ JSONstringify(settings) = ClaudeText
  /\ selectedProviderBySlot[ANTHROPIC_MODEL] = ConfiguredPrefix \o ClaudeKind \o <<":","0">>
  /\ thinkingBySlot[ANTHROPIC_MODEL] = NoThinking
  /\ isDirty(View)
  /\ SlotValue(buildMergedSettings(View, settings), ANTHROPIC_MODEL) = JString(<<"n">>)

\* ------------------------------------------------------------------------
\* The page after a save
\* ------------------------------------------------------------------------

\* Models picked from a provider's list or typed into the slot's card
TypedModels == { <<"n">>, <<"m","(","h","i","g","h",")">> }

PickedLevels == {NoThinking, High}

InitSave ==
  /\ HookMounted("S")
  /\ CallsIdle
  /\ PageInit(TRUE, LoadFiles, NoHandle)

\* The first file is opened, its main slot is edited and saved while the hook
\* loads the providers and may lose the connection; nothing is edited while
\* a save is pending, and nothing is saved while the file is being read.
NextSave ==
  \/ \E l \in 1..Len(loads) : FetchConfigResolve(l)
  \/ \E l \in 1..Len(loads) : ListsResolve(l, TRUE, TRUE, TRUE)
  \/ LoadPageData(FALSE, MaxLoads + 1)
  \/ HandleOpenFile("h1", MaxReads)
  \/ \E i \in 1..Len(reads) : ReadSettled(i, TRUE)
  \/ /\ saves = <<>>
     /\ \E slot \in MainSlot, model \in TypedModels :
          \E providerId \in {<<>>, selectedProviderBySlot[slot]} :
            HandleModelSelect(slot, model, providerId)
  \/ /\ saves = <<>>
     /\ \E slot \in MainSlot, level \in PickedLevels : HandleThinkingChange(slot, level)
  \/ saves = <<>> /\ HandleReset
  \/ reads = <<>> /\ HandleSave(MaxSaves)
  \/ \E i \in 1..Len(saves) : \E granted \in BOOLEAN : SaveSettled(i, granted)

SpecSave == InitSave /\ [][NextSave]_vars

\* A pending handleSave has written the file.
SaveSucceeds == Len(saves') < Len(saves) /\ pageStatus' = "loaded"

\* The base model and thinking level parsed from the slot's value in the
\* settings, as originalParsedBySlot computes them.
ParsedSlot(object, slot) == parseModelWithThinking(normalizeText(ToText(SlotValue(object, slot))))

\* C27: after a save that succeeds, the value written for each slot parses to
\* the slot's edited base model and thinking level, so the page is not dirty.
C27_SavedNotDirty ==
  [][SaveSucceeds =>
       \A slot \in Slots :
         ParsedSlot(settings', slot) = ParsedModel(dirtyEnv'[slot], thinkingBySlot'[slot])]_vars

\* A save has succeeded and the page is dirty: the main slot holds a thinking
\* level and its saved value has none.
C27_Witness ==
  /\ pageStatus = "loaded"
  /\ saves = <<>>
  /\ JSONparse(disk[fileHandle]).v = settings
  /\ isDirty(View)
  /\ thinkingBySlot[ANTHROPIC_MODEL] = High
  /\ ParsedSlot(settings, ANTHROPIC_MODEL) = ParsedModel(<<"m">>, NoThinking)

\* ------------------------------------------------------------------------
\* Switching a slot's provider
\* ------------------------------------------------------------------------

PickedSlots == {ANTHROPIC_MODEL, ANTHROPIC_DEFAULT_OPUS_MODEL}

\* A model that only the codex key lists, typed with a thinking level
TypedCodexModel == <<"k","(","h","i","g","h",")">>

\* The first file is opened and the providers of two slots are picked, a
\* model is typed into a slot, cleared and its level is picked, while the hook
\* loads the providers.
NextPick ==
  \/ \E l \in 1..Len(loads) : FetchConfigResolve(l)
  \/ \E l \in 1..Len(loads) : ListsResolve(l, TRUE, TRUE, TRUE)
  \/ HandleOpenFile("h1", MaxReads)
  \/ \E i \in 1..Len(reads) : ReadSettled(i, TRUE)
  \/ \E slot \in PickedSlots : \E i \in 1..Len(providerEntries) :
       HandleProviderPick(slot, providerEntries[i].id)
  \/ \E slot \in PickedSlots : \E providerId \in {<<>>, selectedProviderBySlot[slot]} :
       HandleModelSelect(slot, TypedCodexModel, providerId)
  \/ \E slot \in PickedSlots : HandleModelClear(slot)
  \/ \E slot \in PickedSlots, level \in PickedLevels : HandleThinkingChange(slot, level)

SpecPick == InitSave /\ [][NextPick]_vars

\* The slot's selection changes in the step.
Switched(slot) == selectedProviderBySlot'[slot] # selectedProviderBySlot[slot]

\* The slot is switched to a provider of the published entries whose provider
\* key is not codex.
SwitchedToNonCodex(slot) ==
  /\ Switched(slot)
  /\ \E i \in 1..Len(providerEntries') :
       /\ providerEntries'[i].id = selectedProviderBySlot'[slot]
       /\ toLowerCase(normalizeText(providerEntries'[i].providerKey)) # CodexKind

\* C7: in a step that switches the provider of slots and neither loads a
\* file nor changes a slot's model, every slot switched to a provider that is
\* not codex has no thinking level afterwards and every slot that was not
\* switched keeps its thinking level.
C7_SwitchClearsOneSlot ==
  [][(/\ settings' = settings
      /\ dirtyEnv' = dirtyEnv
      /\ \E slot \in Slots : Switched(slot))
       => \A slot \in Slots :
            /\ SwitchedToNonCodex(slot) => thinkingBySlot'[slot] = NoThinking
            /\ ~Switched(slot) => thinkingBySlot'[slot] = thinkingBySlot[slot]]_vars

\* The claude key has been picked for the opus slot, and the main slot, whose
\* provider was not switched, has lost its thinking level.
C7_Witness ==
  /\ selectedProviderBySlot[ANTHROPIC_MODEL] = ConfiguredPrefix \o ClaudeKind \o <<":","0">>
  /\ selectedProviderBySlot[ANTHROPIC_DEFAULT_OPUS_MODEL] =
       ConfiguredPrefix \o ClaudeKind \o <<":","0">>
  /\ dirtyEnv[ANTHROPIC_MODEL] = <<"k">>
  /\ thinkingBySlot[ANTHROPIC_MODEL] = NoThinking
  /\ thinkingBySlot[ANTHROPIC_DEFAULT_OPUS_MODEL] = NoThinking

\* ------------------------------------------------------------------------
\* What a save writes
\* ------------------------------------------------------------------------

\* The positions of the entries that list the slot's model in the render.
Listing(view, slot) ==
  { i \in 1..Len(view.providerEntries) :
      providerHasModel(view, view.providerEntries[i], view.dirtyEnv[slot]) }

\* The entry the slot's model resolves to, as a set of at most one position:
\* the slot's selected provider when it lists the model, else the first
\* provider that lists it.
ResolvedProvider(view, slot) ==
  LET Selected == { i \in Listing(view, slot) :
                      view.providerEntries[i].id = view.selectedProviderBySlot[slot] }
      From == IF Selected # {} THEN Selected ELSE Listing(view, slot)
  IN { i \in From : \A j \in From : i <= j }

ResolvesToCodex(view, slot) ==
  \E i \in ResolvedProvider(view, slot) :
    toLowerCase(normalizeText(view.providerEntries[i].providerKey)) = CodexKind

\* The value the slot is to have in the written settings.
WrittenValue(view, slot) ==
  LET base  == normalizeText(view.dirtyEnv[slot])
      level == view.thinkingBySlot[slot]
  IN IF base = <<>> THEN Undefined
     ELSE IF level # NoThinking /\ ResolvesToCodex(view, slot)
       THEN JString(base \o <<"(">> \o level \o <<")">>)
     ELSE JString(base)

\* C8: a save writes, for every slot the user changed, the model with its
\* thinking level in parentheses when the model resolves to a codex provider
\* and a level is held, and the bare model otherwise.
C8_SuffixOnlyForCodex ==
  [][SaveSucceeds =>
       \E i \in 1..Len(saves) :
         \A slot \in Slots :
           slotChanged(saves[i].view, slot) =>
             SlotValue(settings', slot) = WrittenValue(saves[i].view, slot)]_vars

\* The bare model has been written for the main slot although level high is
\* held for it: the providers were gone when the save was pressed.
C8_Witness ==
  /\ saves = <<>>
  /\ pageStatus = "loaded"
  /\ thinkingBySlot[ANTHROPIC_MODEL] = High
  /\ providerEntries = <<>>
  /\ JSONparse(disk["h1"]).ok
  /\ SlotValue(JSONparse(disk["h1"]).v, ANTHROPIC_MODEL) = JString(<<"m">>)

\* The own enumerable properties of a value, as key and value pairs.
Members(value) ==
  LET object == Spread(value)
  IN { <<object.keys[i], object.items[i]>> : i \in 1..Len(object.keys) }

OtherMembers(value, excluded) == { member \in Members(value) : member[1] \notin excluded }

\* C9: the object a save writes to the file has the members of the settings
\* it merged under every top-level key other than env, and its env has the
\* members of their env under every key other than the four slots.
C9_UnknownKeysKept ==
  [][SaveSucceeds =>
       \E i \in 1..Len(saves) :
         LET loaded  == saves[i].view.settings
             written == JSONparse(disk'[saves[i].handle])
         IN /\ written.ok
            /\ OtherMembers(written.v, {EnvKey}) = OtherMembers(loaded, {EnvKey})
            /\ OtherMembers(GetMember(written.v, EnvKey), Slots) =
                 OtherMembers(GetMember(loaded, EnvKey), Slots)]_vars

\* The first file has been saved with the edited model and still has its
\* other keys.
C9_Witness ==
  /\ saves = <<>>
  /\ fileHandle = "h1"
  /\ disk["h1"] # SettingsText
  /\ JSONparse(disk["h1"]).ok
  /\ LET written == JSONparse(disk["h1"]).v
     IN /\ GetMember(written, <<"a">>) = JArray(<<JNull, JNumber(<<"1">>)>>)
        /\ GetMember(GetMember(written, EnvKey), <<"X">>) = JString(<<"1">>)
        /\ GetMember(GetMember(written, <<"z">>), EnvKey) = JString(<<"q">>)
        /\ SlotValue(written, ANTHROPIC_MODEL) = JString(<<"n">>)

\* ------------------------------------------------------------------------
\* Reading a file that does not hold an object
\* ------------------------------------------------------------------------

\* C10: when the read of a file whose JSON value is not a plain object
\* settles, the page is in error with a message, the settings and the slots
\* are as before, and the file handle is still the handle that was read.
C10_NonObjectIsLoadError ==
  [][\A i \in 1..Len(reads) :
       (/\ Len(reads') < Len(reads)
        /\ reads' = SubSeq(reads, 1, i - 1) \o SubSeq(reads, i + 1, Len(reads))
        /\ JSONparse(disk[reads[i]]).ok
        /\ JSONparse(disk[reads[i]]).v.t # "object")
         => /\ pageStatus' = "error"
            /\ loadError' # ""
            /\ settings' = settings
            /\ dirtyEnv' = dirtyEnv
            /\ thinkingBySlot' = thinkingBySlot
            /\ fileHandle' = reads[i]]_vars

\* The second file, which holds JSON that is not an object, was opened after
\* the first was loaded; the read failed and the settings are those of the
\* first file.
C10_Witness ==
  /\ fileHandle = "h2"
  /\ reads = <<>>
  /\ pageStatus = "error"
  /\ loadError = InvalidJsonObject
  /\ JSONparse(disk["h2"]).ok
  /\ JSONparse(disk["h2"]).v.t \in {"null", "array", "string", "number"}
  /\ settings = JSONparse(SettingsText).v

====
